---- MODULE Spec2Model ----
(***************************************************************************)
(* The in-process interception layer of mirrord: the local-to-remote file  *)
(* table (layer/src/file/ops.rs), the descriptor-duplication and           *)
(* address-resolution hooks (layer/src/socket/hooks.rs), the agent relay   *)
(* (kube/src/api.rs) and path normalisation (ops.rs, absolute_path).       *)
(*                                                                         *)
(* The specifications share the module's variables:                        *)
(*   Spec            the file layer: open, openat, dup, dup2, dup3, close  *)
(*   ReadSpec        reads of managed and unmanaged descriptors            *)
(*   AddrSpec        getaddrinfo / freeaddrinfo and MANAGED_ADDRINFO       *)
(*   RelaySpec       wrap_raw_connection and the callers blocked on it     *)
(*   RelayFairSpec   the same, with both branches of the select! fair      *)
(*   PathSpec        absolute_path applied to bounded paths                *)
(*   SockSpec        the socket hooks that may bypass to the original      *)
(*   NativeFirstSpec the hooks that call the original function first       *)
(*   InstallSpec     enable_socket_hooks, statement by statement           *)
(*   LockSpec        threads locking OPEN_FILES                            *)
(*   PolicySpec      the path operations and the file filter               *)
(*   FdSpec          the operations on an open descriptor                  *)
(*   DirSpec         fdopendir and the directory streams                   *)
(*   PoisonedSpec    the duplication hooks when dup returns an error       *)
(*   DisconnectedSpec  close after the relay has ended                     *)
(*   WrapperSpec     the operator connection wrapper (operator/client.rs)  *)
(*   SessionSpec     create_session and connect (operator/client.rs)       *)
(***************************************************************************)
EXTENDS Integers, Sequences, FiniteSets

VARIABLES
    osOpen,      \* local descriptors that are open at the OS level
    OPEN_FILES,  \* the local-to-remote table: local fd -> Arc (NoArc = absent)
    arcFd,       \* RemoteFile.fd of every live Arc<RemoteFile> (0 = no such Arc)
    returned,    \* remote fds the peer has returned from an open
    closeReqs,   \* CloseFileRequests sent for a remote fd since it was last returned
    openedAs,    \* local fd -> remote fd of the open that returned it (0 = none)
    lastOp,      \* what the last hook call did: arguments, result, requests, native calls
    OPEN_DIRS,   \* the directory streams: local directory handle -> (remote dir fd, fd)
    pathIn,      \* the path handed to absolute_path, as its segments between '/'
    pathPc,      \* "input", "once" (normalised), "twice" (normalised again)
    norm,        \* absolute_path(path)
    norm2,       \* absolute_path(absolute_path(path))
    heap,        \* who allocated the addrinfo node at each address, or "free"
    ai_next,     \* the ai_next pointer stored at each address
    MANAGED_ADDRINFO,  \* socket/hooks.rs: addresses of the lists allocated by the layer
    lastFree,    \* what the last call did, when it was a freeaddrinfo
    in_q,        \* kube/api.rs: client messages between in_tx and in_rx
    out_q,       \* daemon messages between out_tx and out_rx
    relay,       \* the spawned task: where it is and the message it holds
    stream,      \* the transport: "up" or "ended"
    frames,      \* frames the agent wrote that the codec has not decoded yet
    atAgent,     \* requests the agent received and has not answered
    caller,      \* each thread's blocking request
    accepted,    \* the requests in_tx.send has accepted, in order
    written,     \* the requests codec.send has written, in order
    decoded,     \* the messages codec.next has decoded, in order
    delivered,   \* the messages out_tx.send has put in the channel, in order
    logged,      \* how many log messages the task has logged
    SOCKETS,     \* local descriptors that carry socket metadata of the layer
    lastHook,    \* what the last socket hook call did, with the arguments of its native call
    enabled_remote_dns,  \* socket/hooks.rs: the argument of enable_socket_hooks
    target_os,   \* the platform the layer was built for
    installPc,   \* the statements of enable_socket_hooks passed so far
    replaced,    \* how many times each symbol was handed to replace!
    holder,      \* file/ops.rs: the thread that holds the OPEN_FILES mutex (0 = free)
    thread,      \* each thread's position in an operation on OPEN_FILES
    trace_enabled,  \* the subscriber records spans of level trace
    lastPath,    \* what the last path operation asked of the file filter, and its result
    wrapper,     \* operator/client.rs: the ConnectionWrapper task and its last turn
    client_rx,   \* the channel from the client to the wrapper
    daemon_tx,   \* the channel from the wrapper to the client
    connection,  \* the websocket connection: frames sent to and written by the operator
    session      \* the last create_session or connect: its inputs, requests and result

fileVars == <<osOpen, OPEN_FILES, arcFd, returned, closeReqs, openedAs, lastOp, OPEN_DIRS>>
pathVars == <<pathIn, pathPc, norm, norm2>>

addrVars == <<heap, ai_next, MANAGED_ADDRINFO, lastFree>>

histVars == <<accepted, written, decoded, delivered, logged>>

relayVars == <<in_q, out_q, relay, stream, frames, atAgent, caller, histVars>>

sockVars == <<SOCKETS, lastHook>>

installVars == <<enabled_remote_dns, target_os, installPc, replaced>>

lockVars == <<holder, thread, trace_enabled>>

policyVars == <<lastPath>>

operatorVars == <<wrapper, client_rx, daemon_tx, connection, session>>

vars == <<fileVars, pathVars, addrVars, relayVars, sockVars, installVars, lockVars,
          policyVars, operatorVars>>

----------------------------------------------------------------------------
(* Bounds *)

MaxLocalFd == 1
MaxRemoteFd == 2
MaxDirs == 1

Fd == 0..MaxLocalFd
RemoteFd == 1..MaxRemoteFd
ArcId == 1..(MaxLocalFd + 2)
NoArc == 0

(* libc::AT_FDCWD *)
AT_FDCWD == 0 - 100

(* ops.rs: const MAX_READ_SIZE: u64 = 1024 * 1024 *)
MAX_READ_SIZE == 1024 * 1024

(* The read amounts tried (u64 in the code; TLC's integers are 32 bits wide) *)
ReadAmounts == {0, 1, MAX_READ_SIZE - 1, MAX_READ_SIZE, MAX_READ_SIZE + 1, 2147483647}

----------------------------------------------------------------------------
(* Detour<T>: Success(value) / Bypass(reason) / Error(kind) *)

Success(v) == [kind |-> "Success", val |-> v]
Bypass(reason) == [kind |-> "Bypass", val |-> reason]
Error(e) == [kind |-> "Error", val |-> e]

(* Requests to the proxy *)
Request(type, fd, arg) == [type |-> type, fd |-> fd, arg |-> arg]
OpenFileRequest == Request("OpenFileRequest", 0, 0)
OpenRelativeFileRequest(relative_fd) == Request("OpenRelativeFileRequest", relative_fd, 0)
ReadFileRequest(remote_fd, buffer_size) == Request("ReadFileRequest", remote_fd, buffer_size)
CloseFileRequest(fd) == Request("CloseFileRequest", fd, 0)

Min(a, b) == IF a < b THEN a ELSE b

----------------------------------------------------------------------------
(* RemoteFile and the table *)

(* RemoteFile::remote_read: the request it sends *)
remote_read_unclamped(remote_fd, read_amount) ==
    ReadFileRequest(remote_fd, read_amount)

remote_read(remote_fd, read_amount) ==
    ReadFileRequest(remote_fd, Min(read_amount, MAX_READ_SIZE))

(* RemoteFile::remote_close: the request it sends *)
remote_close(fd) == CloseFileRequest(fd)

(* get_remote_fd on a given table *)
RemoteFdIn(files, arcs, local_fd) ==
    IF local_fd \in Fd /\ files[local_fd] # NoArc
    THEN Success(arcs[files[local_fd]])
    ELSE Bypass("LocalFdNotFound")

get_remote_fd(local_fd) == RemoteFdIn(OPEN_FILES, arcFd, local_fd)

(* The local descriptors holding a clone of Arc a *)
ArcRefs(files, a) == {fd \in Fd : files[fd] = a}

(* Arc<RemoteFile>: the value is dropped when the last clone goes away.     *)
(* The mutant drops it whenever any clone goes away.                        *)
ArcDropped_EveryClone(before, after, a) ==
    ArcRefs(before, a) \ ArcRefs(after, a) # {}

ArcDropped(before, after, a) ==
    ArcRefs(before, a) # {} /\ ArcRefs(after, a) = {}

(* A sequence holding the elements of a finite set of integers, ascending *)
RECURSIVE SetToSeq(_)
SetToSeq(S) ==
    IF S = {} THEN <<>>
    ELSE LET m == CHOOSE x \in S : \A y \in S : x <= y
         IN <<m>> \o SetToSeq(S \ {m})

(* impl Drop for RemoteFile: one remote_close per dropped value *)
DropRequests(before, after, arcs) ==
    LET dropped == {a \in ArcId : arcs[a] # 0 /\ ArcDropped(before, after, a)}
        fds == SetToSeq(dropped)
    IN [i \in 1..Len(fds) |-> remote_close(arcs[fds[i]])]

(* Arc::new(RemoteFile::new(remote_fd, ..)): a fresh Arc *)
NewArc == CHOOSE a \in ArcId : arcFd[a] = 0 /\ \A b \in ArcId : arcFd[b] = 0 => a <= b

(* create_local_fake_file: FN_OPEN gave local_file_fd (-1 on failure) *)
create_local_fake_file_NoRollback(remote_fd, local_file_fd) ==
    IF local_file_fd = 0 - 1
    THEN [ret |-> Error("LocalFileCreation"), sent |-> <<>>]
    ELSE [ret |-> Success(local_file_fd), sent |-> <<>>]

create_local_fake_file(remote_fd, local_file_fd) ==
    IF local_file_fd = 0 - 1
    THEN [ret |-> Error("LocalFileCreation"), sent |-> <<remote_close(remote_fd)>>]
    ELSE [ret |-> Success(local_file_fd), sent |-> <<>>]

----------------------------------------------------------------------------
(* The peer, as the requests sent so far leave it *)

PeerOpen == {r \in returned : closeReqs[r] = 0}

(* What the peer may answer to an open: a fd it does not have open, or an error *)
OpenResponses == {[fd |-> r, ok |-> TRUE] : r \in RemoteFd \ PeerOpen}
                 \cup {[fd |-> 0, ok |-> FALSE]}

(* What FN_OPEN / FN_DUP may return: a descriptor that is not open, or -1 *)
FreshFds == (Fd \ osOpen) \cup {0 - 1}

ClosesFor(sent, r) ==
    Cardinality({i \in 1..Len(sent) : sent[i] = CloseFileRequest(r)})

(* lastHook when the last call was not a socket hook *)
NoHook == [ret |-> 0, hook |-> "none", args |-> <<>>, detour |-> "none", native |-> <<>>]

(* lastOp when the last call was not a file or duplication hook *)
NoOp == [ret |-> 0, sent |-> <<>>, args |-> <<>>, native |-> <<>>, op |-> "none",
         opened |-> 0, asked |-> <<>>]

(* No directory stream under a handle *)
NoDir == [fd |-> 0, present |-> FALSE, remote_dir_fd |-> 0]

(* A native call and what it returned *)
Native(fn, ret) == [ret |-> ret, fn |-> fn]

(* What a hook call did: its result, the requests it sent, the native     *)
(* calls it made, and the tables and the OS after it; the socket table and *)
(* the directory streams are left as they are and the file filter is not   *)
(* asked unless the call says otherwise.                                   *)
Outcome(ret, sent, native, files, arcs, os) ==
    [files |-> files, arcs |-> arcs, ret |-> ret, sent |-> sent,
     native |-> native, asked |-> <<>>, os |-> os, sockets |-> SOCKETS,
     dirs |-> OPEN_DIRS]

(* A call that reached ensure_not_ignored! *)
Consulted(o) == [o EXCEPT !.asked = <<"ensure_not_ignored">>]

(* A hook call that leaves the table and the OS alone *)
NoChange(ret, sent, native) ==
    Outcome(ret, sent, native, OPEN_FILES, arcFd, osOpen)

(* An Arc has no name of its own: it is named after its lowest alias *)
CanonArc(files, fd) ==
    IF files[fd] = NoArc THEN NoArc
    ELSE 1 + (CHOOSE m \in Fd : files[m] = files[fd]
                 /\ \A k \in Fd : files[k] = files[fd] => m <= k)

(* The end of every hook call: the values the table change dropped send    *)
(* their close requests, and the peer has received every request.          *)
(* opened is the remote fd the peer returned in this call (0 = none) and   *)
(* origin the remote fd each local descriptor was opened as.               *)
Finish(op, args, o, opened, origin) ==
    LET drops == DropRequests(OPEN_FILES, o.files, o.arcs)
        all == o.sent \o drops
        canon == [fd \in Fd |-> CanonArc(o.files, fd)]
    IN /\ OPEN_FILES' = canon
       /\ arcFd' = [a \in ArcId |->
              IF \E fd \in Fd : canon[fd] = a
              THEN o.arcs[o.files[CHOOSE fd \in Fd : canon[fd] = a]]
              ELSE 0]
       /\ osOpen' = o.os
       /\ returned' = IF opened = 0 THEN returned ELSE returned \cup {opened}
       /\ closeReqs' = [r \in RemoteFd |->
              LET base == IF r = opened THEN 0 ELSE closeReqs[r]
              IN Min(2, base + ClosesFor(all, r))]
       /\ openedAs' = origin
       /\ lastOp' = [ret |-> o.ret, sent |-> all, args |-> args, native |-> o.native,
                     op |-> op, opened |-> opened, asked |-> o.asked]
       /\ OPEN_DIRS' = o.dirs
       /\ SOCKETS' = o.sockets
       /\ lastHook' = NoHook
       /\ UNCHANGED <<pathVars, addrVars, relayVars, installVars, lockVars, policyVars, operatorVars>>

----------------------------------------------------------------------------
(* file/ops.rs *)

(* OPEN_FILES.lock()?.insert(local_file_fd, Arc::new(RemoteFile::new(remote_fd, ..))) *)
(* The mutant stores another remote fd than the one of the response.       *)
InsertNew_OtherRemoteFd(local_file_fd, remote_fd, sent, native) ==
    Outcome(Success(local_file_fd), sent, native,
            [OPEN_FILES EXCEPT ![local_file_fd] = NewArc],
            [arcFd EXCEPT ![NewArc] = (remote_fd % MaxRemoteFd) + 1],
            osOpen \cup {local_file_fd})

InsertNew(local_file_fd, remote_fd, sent, native) ==
    Outcome(Success(local_file_fd), sent, native,
            [OPEN_FILES EXCEPT ![local_file_fd] = NewArc],
            [arcFd EXCEPT ![NewArc] = remote_fd],
            osOpen \cup {local_file_fd})

(* What the caller hands to open: the path Detour, and whether it is relative *)
PathInputs == {Success("absolute"), Success("relative"), Bypass("CStrConversion")}

(* The policy oracle's answer for the remapped path *)
Decisions == {"continue", "bypass"}

(* open: path?, check_relative_paths!, remap_path!, ensure_not_ignored!,   *)
(* remote_open, create_local_fake_file, insert                             *)
(* The mutant opens the remote file before it looks at the decision.       *)
open_OpensIgnored(path, decision, resp, local_file_fd) ==
    IF path.kind # "Success" THEN NoChange(path, <<>>, <<>>)
    ELSE IF path.val = "relative" THEN NoChange(Bypass("RelativePath"), <<>>, <<>>)
    ELSE Consulted(
        IF decision = "bypass"
        THEN NoChange(Bypass("IgnoredFile"), <<OpenFileRequest>>, <<>>)
        ELSE IF ~resp.ok THEN NoChange(Error("ResponseError"), <<OpenFileRequest>>, <<>>)
        ELSE LET local == create_local_fake_file(resp.fd, local_file_fd)
                 sent == <<OpenFileRequest>> \o local.sent
                 native == <<Native("FN_OPEN", local_file_fd)>>
             IN IF local.ret.kind # "Success"
                THEN NoChange(local.ret, sent, native)
                ELSE InsertNew(local.ret.val, resp.fd, sent, native))

open(path, decision, resp, local_file_fd) ==
    IF path.kind # "Success" THEN NoChange(path, <<>>, <<>>)
    ELSE IF path.val = "relative" THEN NoChange(Bypass("RelativePath"), <<>>, <<>>)
    ELSE Consulted(
        IF decision = "bypass" THEN NoChange(Bypass("IgnoredFile"), <<>>, <<>>)
        ELSE IF ~resp.ok THEN NoChange(Error("ResponseError"), <<OpenFileRequest>>, <<>>)
        ELSE LET local == create_local_fake_file(resp.fd, local_file_fd)
                 sent == <<OpenFileRequest>> \o local.sent
                 native == <<Native("FN_OPEN", local_file_fd)>>
             IN IF local.ret.kind # "Success"
                THEN NoChange(local.ret, sent, native)
                ELSE InsertNew(local.ret.val, resp.fd, sent, native))

(* openat: an absolute path or AT_FDCWD goes to open; a relative path is    *)
(* opened relative to the remote fd of the base descriptor.                *)
(* The mutant binds the new descriptor to the base's remote fd.            *)
openat_BaseFd(fd, path, decision, resp, local_file_fd) ==
    IF path.kind # "Success" THEN NoChange(path, <<>>, <<>>)
    ELSE IF path.val = "absolute" \/ fd = AT_FDCWD
    THEN open(path, decision, resp, local_file_fd)
    ELSE LET base == get_remote_fd(fd) IN
         IF base.kind # "Success" THEN NoChange(base, <<>>, <<>>)
         ELSE IF ~resp.ok
         THEN NoChange(Error("ResponseError"), <<OpenRelativeFileRequest(base.val)>>, <<>>)
         ELSE LET local == create_local_fake_file(resp.fd, local_file_fd)
                  sent == <<OpenRelativeFileRequest(base.val)>> \o local.sent
                  native == <<Native("FN_OPEN", local_file_fd)>>
              IN IF local.ret.kind # "Success"
                 THEN NoChange(local.ret, sent, native)
                 ELSE InsertNew(local.ret.val, base.val, sent, native)

(* The mutant asks the peer to open relative to the local descriptor *)
openat_LocalBase(fd, path, decision, resp, local_file_fd) ==
    IF path.kind # "Success" THEN NoChange(path, <<>>, <<>>)
    ELSE IF path.val = "absolute" \/ fd = AT_FDCWD
    THEN open(path, decision, resp, local_file_fd)
    ELSE LET base == get_remote_fd(fd) IN
         IF base.kind # "Success" THEN NoChange(base, <<>>, <<>>)
         ELSE IF ~resp.ok
         THEN NoChange(Error("ResponseError"), <<OpenRelativeFileRequest(fd)>>, <<>>)
         ELSE LET local == create_local_fake_file(resp.fd, local_file_fd)
                  sent == <<OpenRelativeFileRequest(fd)>> \o local.sent
                  native == <<Native("FN_OPEN", local_file_fd)>>
              IN IF local.ret.kind # "Success"
                 THEN NoChange(local.ret, sent, native)
                 ELSE InsertNew(local.ret.val, resp.fd, sent, native)

openat(fd, path, decision, resp, local_file_fd) ==
    IF path.kind # "Success" THEN NoChange(path, <<>>, <<>>)
    ELSE IF path.val = "absolute" \/ fd = AT_FDCWD
    THEN open(path, decision, resp, local_file_fd)
    ELSE LET base == get_remote_fd(fd) IN
         IF base.kind # "Success" THEN NoChange(base, <<>>, <<>>)
         ELSE IF ~resp.ok
         THEN NoChange(Error("ResponseError"), <<OpenRelativeFileRequest(base.val)>>, <<>>)
         ELSE LET local == create_local_fake_file(resp.fd, local_file_fd)
                  sent == <<OpenRelativeFileRequest(base.val)>> \o local.sent
                  native == <<Native("FN_OPEN", local_file_fd)>>
              IN IF local.ret.kind # "Success"
                 THEN NoChange(local.ret, sent, native)
                 ELSE InsertNew(local.ret.val, resp.fd, sent, native)

(* read: get_remote_fd(local_fd).and_then(remote_read); ok is the peer's answer *)
read(local_fd, read_amount, ok) ==
    LET remote == get_remote_fd(local_fd) IN
    IF remote.kind # "Success" THEN NoChange(remote, <<>>, <<>>)
    ELSE NoChange(IF ok THEN Success("ReadFileResponse") ELSE Error("ResponseError"),
                  <<remote_read(remote.val, read_amount)>>, <<>>)

----------------------------------------------------------------------------
(* socket/hooks.rs: descriptor duplication; the close hook *)

(* ops::dup::<SWITCH_MAP>(fd, dup_fd): a managed source gives the new      *)
(* descriptor a clone of the source's Arc; the table after it              *)
dup(fd, dup_fd) ==
    IF OPEN_FILES[fd] # NoArc
    THEN [OPEN_FILES EXCEPT ![dup_fd] = OPEN_FILES[fd]]
    ELSE OPEN_FILES

(* ops::dup on the socket table: a source with socket metadata shares it   *)
(* with the new descriptor; the table after it                             *)
dup_sockets(fd, dup_fd) ==
    IF fd \in SOCKETS THEN SOCKETS \cup {dup_fd} ELSE SOCKETS

(* A successful call that changed both tables *)
Bookkept(ret, native, files, sockets) ==
    [Outcome(ret, <<>>, native, files, arcFd, osOpen \cup {ret}) EXCEPT !.sockets = sockets]

(* Err(e) => e.into(): dup returned an error, which it does when a lock of  *)
(* its tables is poisoned; the hook returns the failure sentinel, the      *)
(* tables are as they were and the descriptor the original function        *)
(* returned is not closed                                                  *)
Unkept(dup_result, native) ==
    Outcome(0 - 1, <<>>, native, OPEN_FILES, arcFd, osOpen \cup {dup_result})

(* What the native dup of fd may return *)
NativeDupResults(fd) == IF fd \in osOpen THEN FreshFds ELSE {0 - 1}

(* What the native dup2/dup3 of oldfd onto newfd may return *)
NativeDup2Results(oldfd, newfd) == IF oldfd \in osOpen THEN {newfd, 0 - 1} ELSE {0 - 1}

(* What the native dup3 may return: equal descriptors are an error *)
NativeDup3Results(oldfd, newfd) ==
    IF oldfd = newfd THEN {0 - 1} ELSE NativeDup2Results(oldfd, newfd)

(* dup_detour: FN_DUP first, bookkeeping on success; kept is whether dup   *)
(* returned Ok(()).                                                        *)
(* The mutant hands dup its arguments in the wrong order.                  *)
dup_detour_Swapped(fd, dup_result, kept) ==
    IF dup_result = 0 - 1 THEN NoChange(dup_result, <<>>, <<Native("FN_DUP", dup_result)>>)
    ELSE IF ~kept THEN Unkept(dup_result, <<Native("FN_DUP", dup_result)>>)
    ELSE Bookkept(dup_result, <<Native("FN_DUP", dup_result)>>,
                  dup(dup_result, fd), dup_sockets(dup_result, fd))

dup_detour(fd, dup_result, kept) ==
    IF dup_result = 0 - 1 THEN NoChange(dup_result, <<>>, <<Native("FN_DUP", dup_result)>>)
    ELSE IF ~kept THEN Unkept(dup_result, <<Native("FN_DUP", dup_result)>>)
    ELSE Bookkept(dup_result, <<Native("FN_DUP", dup_result)>>,
                  dup(fd, dup_result), dup_sockets(fd, dup_result))

(* dup2_detour: oldfd = newfd returns newfd at once.                       *)
(* The mutant goes to FN_DUP2 whatever the descriptors.                    *)
dup2_detour_NoShortcut(oldfd, newfd, dup2_result, kept) ==
    IF dup2_result = 0 - 1
    THEN NoChange(dup2_result, <<>>, <<Native("FN_DUP2", dup2_result)>>)
    ELSE IF ~kept THEN Unkept(dup2_result, <<Native("FN_DUP2", dup2_result)>>)
    ELSE Bookkept(dup2_result, <<Native("FN_DUP2", dup2_result)>>,
                  dup(oldfd, dup2_result), dup_sockets(oldfd, dup2_result))

dup2_detour(oldfd, newfd, dup2_result, kept) ==
    IF oldfd = newfd THEN NoChange(newfd, <<>>, <<>>)
    ELSE IF dup2_result = 0 - 1
    THEN NoChange(dup2_result, <<>>, <<Native("FN_DUP2", dup2_result)>>)
    ELSE IF ~kept THEN Unkept(dup2_result, <<Native("FN_DUP2", dup2_result)>>)
    ELSE Bookkept(dup2_result, <<Native("FN_DUP2", dup2_result)>>,
                  dup(oldfd, dup2_result), dup_sockets(oldfd, dup2_result))

(* dup3_detour *)
dup3_detour(oldfd, newfd, dup3_result, kept) ==
    IF dup3_result = 0 - 1
    THEN NoChange(dup3_result, <<>>, <<Native("FN_DUP3", dup3_result)>>)
    ELSE IF ~kept THEN Unkept(dup3_result, <<Native("FN_DUP3", dup3_result)>>)
    ELSE Bookkept(dup3_result, <<Native("FN_DUP3", dup3_result)>>,
                  dup(oldfd, dup3_result), dup_sockets(oldfd, dup3_result))

(* The close hook: the descriptor leaves the table, then the native close *)
close_detour(fd, close_result) ==
    [Outcome(close_result, <<>>, <<Native("FN_CLOSE", close_result)>>,
             [OPEN_FILES EXCEPT ![fd] = NoArc], arcFd, osOpen \ {fd})
        EXCEPT !.sockets = SOCKETS \ {fd}]

(* ops::accept(sockfd, .., new_fd): a connection accepted on a socket with *)
(* metadata gives the new descriptor metadata of its own, unless the       *)
(* lookup of the connection fails; any other socket is bypassed            *)
accept(sockfd, new_fd, ok) ==
    IF sockfd \notin SOCKETS THEN [detour |-> Bypass("LocalFdNotFound"), sockets |-> SOCKETS]
    ELSE IF ok THEN [detour |-> Success(new_fd), sockets |-> SOCKETS \cup {new_fd}]
    ELSE [detour |-> Error("remote"), sockets |-> SOCKETS]

(* Detour::unwrap_or_bypass(value) *)
unwrap_or_bypass(detour, value) ==
    IF detour.kind = "Success" THEN detour.val
    ELSE IF detour.kind = "Bypass" THEN value
    ELSE 0 - 1

(* accept_detour and accept4_detour: the original function first, then     *)
(* ops::accept with the descriptor it returned.                            *)
(* The mutant does the bookkeeping whatever the original function returned. *)
accept_detour_IgnoresFailure(sockfd, accept_result, ok) ==
    LET r == accept(sockfd, accept_result, ok)
    IN [Outcome(unwrap_or_bypass(r.detour, accept_result), <<>>,
                <<Native("FN_ACCEPT", accept_result)>>, OPEN_FILES, arcFd,
                osOpen \cup ({accept_result} \cap Fd))
           EXCEPT !.sockets = r.sockets]

accept_detour(sockfd, accept_result, ok) ==
    IF accept_result = 0 - 1
    THEN NoChange(accept_result, <<>>, <<Native("FN_ACCEPT", accept_result)>>)
    ELSE LET r == accept(sockfd, accept_result, ok)
         IN [Outcome(unwrap_or_bypass(r.detour, accept_result), <<>>,
                     <<Native("FN_ACCEPT", accept_result)>>, OPEN_FILES, arcFd,
                     osOpen \cup {accept_result})
                EXCEPT !.sockets = r.sockets]

accept4_detour(sockfd, flags, accept_result, ok) ==
    IF accept_result = 0 - 1
    THEN NoChange(accept_result, <<>>, <<Native("FN_ACCEPT4", accept_result)>>)
    ELSE LET r == accept(sockfd, accept_result, ok)
         IN [Outcome(unwrap_or_bypass(r.detour, accept_result), <<>>,
                     <<Native("FN_ACCEPT4", accept_result)>>, OPEN_FILES, arcFd,
                     osOpen \cup {accept_result})
                EXCEPT !.sockets = r.sockets]

(* The fcntl commands that matter: two that duplicate and one that does not *)
FcntlCommands == {"F_DUPFD", "F_DUPFD_CLOEXEC", "F_GETFL"}

Duplicates(cmd) == cmd \in {"F_DUPFD", "F_DUPFD_CLOEXEC"}

(* fcntl_detour: FN_FCNTL first; without the detour guard its result is    *)
(* returned at once; on success ops::fcntl does the bookkeeping of a       *)
(* duplicating command with the descriptor FN_FCNTL returned               *)
fcntl_detour_IgnoresGuard(fd, cmd, fcntl_result, guard) ==
    IF fcntl_result = 0 - 1
    THEN NoChange(fcntl_result, <<>>, <<Native("FN_FCNTL", fcntl_result)>>)
    ELSE IF Duplicates(cmd)
    THEN Bookkept(fcntl_result, <<Native("FN_FCNTL", fcntl_result)>>,
                  dup(fd, fcntl_result), dup_sockets(fd, fcntl_result))
    ELSE NoChange(fcntl_result, <<>>, <<Native("FN_FCNTL", fcntl_result)>>)

fcntl_detour(fd, cmd, fcntl_result, guard) ==
    IF ~guard \/ fcntl_result = 0 - 1
    THEN Outcome(fcntl_result, <<>>, <<Native("FN_FCNTL", fcntl_result)>>,
                 OPEN_FILES, arcFd,
                 IF Duplicates(cmd) /\ fcntl_result # 0 - 1
                 THEN osOpen \cup {fcntl_result} ELSE osOpen)
    ELSE IF Duplicates(cmd)
    THEN Bookkept(fcntl_result, <<Native("FN_FCNTL", fcntl_result)>>,
                  dup(fd, fcntl_result), dup_sockets(fd, fcntl_result))
    ELSE NoChange(fcntl_result, <<>>, <<Native("FN_FCNTL", fcntl_result)>>)

(* What the original accept on sockfd may return *)
NativeAcceptResults(sockfd) == IF sockfd \in osOpen THEN FreshFds ELSE {0 - 1}

(* What the original fcntl may return: a new descriptor for a duplicating  *)
(* command, the flags (here 0) for another, or -1                          *)
NativeFcntlResults(fd, cmd) ==
    IF fd \notin osOpen THEN {0 - 1}
    ELSE IF Duplicates(cmd) THEN FreshFds
    ELSE {0}

----------------------------------------------------------------------------
(* socket/hooks.rs: the hooks that virtualize first and fall back to the   *)
(* original function                                                       *)

(* The null pointer *)
NULL == 0

(* A call of an original function: its arguments and what it returned *)
NativeCall(fn, args, ret) == [ret |-> ret, args |-> args, fn |-> fn]

(* What a socket hook call did *)
HookResult(ret, native) == [ret |-> ret, native |-> native]

(* Detour::unwrap_or_bypass_with: the value of a success, the original     *)
(* function on a bypass, the failure value -1 (null for a pointer) on an   *)
(* error                                                                   *)
unwrap_or_bypass_with(detour, failure, fn, args, native_ret) ==
    IF detour.kind = "Success" THEN HookResult(detour.val, <<>>)
    ELSE IF detour.kind = "Bypass"
    THEN HookResult(native_ret, <<NativeCall(fn, args, native_ret)>>)
    ELSE HookResult(failure, <<>>)

socket_detour(domain, type_, protocol, detour, native_ret) ==
    unwrap_or_bypass_with(detour, 0 - 1, "FN_SOCKET", <<domain, type_, protocol>>, native_ret)

bind_detour(sockfd, raw_address, address_length, detour, native_ret) ==
    unwrap_or_bypass_with(detour, 0 - 1, "FN_BIND",
                          <<sockfd, raw_address, address_length>>, native_ret)

listen_detour(sockfd, backlog, detour, native_ret) ==
    unwrap_or_bypass_with(detour, 0 - 1, "FN_LISTEN", <<sockfd, backlog>>, native_ret)

connect_detour(sockfd, raw_address, address_length, detour, native_ret) ==
    unwrap_or_bypass_with(detour, 0 - 1, "FN_CONNECT",
                          <<sockfd, raw_address, address_length>>, native_ret)

_connect_nocancel_detour(sockfd, raw_address, address_length, detour, native_ret) ==
    unwrap_or_bypass_with(detour, 0 - 1, "FN__CONNECT_NOCANCEL",
                          <<sockfd, raw_address, address_length>>, native_ret)

getpeername_detour(sockfd, address, address_len, detour, native_ret) ==
    unwrap_or_bypass_with(detour, 0 - 1, "FN_GETPEERNAME",
                          <<sockfd, address, address_len>>, native_ret)

(* The mutant falls back to the original getpeername *)
getsockname_detour_CallsGetPeerName(sockfd, address, address_len, detour, native_ret) ==
    unwrap_or_bypass_with(detour, 0 - 1, "FN_GETPEERNAME",
                          <<sockfd, address, address_len>>, native_ret)

getsockname_detour(sockfd, address, address_len, detour, native_ret) ==
    unwrap_or_bypass_with(detour, 0 - 1, "FN_GETSOCKNAME",
                          <<sockfd, address, address_len>>, native_ret)

(* gethostname_detour: a success carries the remote host name, here its    *)
(* length with the terminating nul; a name longer than the buffer gives    *)
(* EINVAL and -1                                                           *)
gethostname_detour(raw_name, name_length, detour, native_ret) ==
    unwrap_or_bypass_with(
        IF detour.kind = "Success"
        THEN Success(IF detour.val > name_length THEN 0 - 1 ELSE 0)
        ELSE detour,
        0 - 1, "FN_GETHOSTNAME", <<raw_name, name_length>>, native_ret)

gethostbyname_detour(raw_name, detour, native_ret) ==
    unwrap_or_bypass_with(detour, NULL, "FN_GETHOSTBYNAME", <<raw_name>>, native_ret)

(* The original function each of these hooks replaces *)
OriginalOf ==
    [socket |-> "FN_SOCKET", bind |-> "FN_BIND", listen |-> "FN_LISTEN",
     connect |-> "FN_CONNECT", _connect_nocancel |-> "FN__CONNECT_NOCANCEL",
     getpeername |-> "FN_GETPEERNAME", getsockname |-> "FN_GETSOCKNAME",
     gethostname |-> "FN_GETHOSTNAME", gethostbyname |-> "FN_GETHOSTBYNAME",
     getaddrinfo |-> "FN_GETADDRINFO"]

(* Arguments of the calls: pointers are addresses, 0 is the null pointer *)
AddressPtr == 700
AddressLenPtr == 701
NamePtr == 702
AddressLengths == {16}
Backlogs == {128}
Domains == {1, 2}
NameLengths == 0..2
HostLengths == 1..3
StaticHostent == 800
LibcHostent == 801

(* What the virtualized operation on a descriptor may yield: a descriptor  *)
(* without socket metadata is bypassed                                     *)
SocketDetours(sockfd) ==
    IF sockfd \in SOCKETS
    THEN {Success(0), Bypass("port"), Error("remote")}
    ELSE {Bypass("LocalFdNotFound")}

(* The end of a socket hook call that leaves the socket table alone *)
HookDone(hook, args, detour, r) ==
    /\ lastHook' = [ret |-> r.ret, hook |-> hook, args |-> args,
                    detour |-> detour.kind, native |-> r.native]
    /\ lastOp' = NoOp
    /\ UNCHANGED <<OPEN_FILES, arcFd, returned, closeReqs, openedAs, OPEN_DIRS,
                   pathVars, addrVars, relayVars, installVars, lockVars, policyVars, operatorVars>>

(* socket: a success is a new descriptor with socket metadata, a bypass a  *)
(* new descriptor of the original socket, or its failure                   *)
Socket ==
    \E domain \in Domains, fd \in FreshFds,
       kind \in {"Success", "Bypass", "Error"} :
        LET detour == IF kind = "Success" THEN Success(fd)
                      ELSE IF kind = "Bypass" THEN Bypass("domain") ELSE Error("remote")
            r == socket_detour(domain, 1, 0, detour, fd)
        IN /\ kind = "Success" => fd # 0 - 1
           /\ kind = "Error" => fd = 0 - 1
           /\ osOpen' = IF r.ret = 0 - 1 THEN osOpen ELSE osOpen \cup {r.ret}
           /\ SOCKETS' = IF kind = "Success" THEN SOCKETS \cup {fd} ELSE SOCKETS
           /\ HookDone("socket", <<domain, 1, 0>>, detour, r)

Bind ==
    \E sockfd \in Fd, len \in AddressLengths, native_ret \in {0, 0 - 1} :
        \E detour \in SocketDetours(sockfd) :
            /\ detour.kind # "Bypass" => native_ret = 0
            /\ HookDone("bind", <<sockfd, AddressPtr, len>>, detour,
                        bind_detour(sockfd, AddressPtr, len, detour, native_ret))
            /\ UNCHANGED <<osOpen, SOCKETS>>

Listen ==
    \E sockfd \in Fd, backlog \in Backlogs, native_ret \in {0, 0 - 1} :
        \E detour \in SocketDetours(sockfd) :
            /\ detour.kind # "Bypass" => native_ret = 0
            /\ HookDone("listen", <<sockfd, backlog>>, detour,
                        listen_detour(sockfd, backlog, detour, native_ret))
            /\ UNCHANGED <<osOpen, SOCKETS>>

Connect ==
    \E sockfd \in Fd, len \in AddressLengths, native_ret \in {0, 0 - 1} :
        \E detour \in SocketDetours(sockfd) :
            /\ detour.kind # "Bypass" => native_ret = 0
            /\ HookDone("connect", <<sockfd, AddressPtr, len>>, detour,
                        connect_detour(sockfd, AddressPtr, len, detour, native_ret))
            /\ UNCHANGED <<osOpen, SOCKETS>>

ConnectNoCancel ==
    \E sockfd \in Fd, len \in AddressLengths, native_ret \in {0, 0 - 1} :
        \E detour \in SocketDetours(sockfd) :
            /\ detour.kind # "Bypass" => native_ret = 0
            /\ HookDone("_connect_nocancel", <<sockfd, AddressPtr, len>>, detour,
                        _connect_nocancel_detour(sockfd, AddressPtr, len, detour, native_ret))
            /\ UNCHANGED <<osOpen, SOCKETS>>

GetPeerName ==
    \E sockfd \in Fd, native_ret \in {0, 0 - 1} :
        \E detour \in SocketDetours(sockfd) :
            /\ detour.kind # "Bypass" => native_ret = 0
            /\ HookDone("getpeername", <<sockfd, AddressPtr, AddressLenPtr>>, detour,
                        getpeername_detour(sockfd, AddressPtr, AddressLenPtr, detour,
                                           native_ret))
            /\ UNCHANGED <<osOpen, SOCKETS>>

GetSockName ==
    \E sockfd \in Fd, native_ret \in {0, 0 - 1} :
        \E detour \in SocketDetours(sockfd) :
            /\ detour.kind # "Bypass" => native_ret = 0
            /\ HookDone("getsockname", <<sockfd, AddressPtr, AddressLenPtr>>, detour,
                        getsockname_detour(sockfd, AddressPtr, AddressLenPtr, detour,
                                           native_ret))
            /\ UNCHANGED <<osOpen, SOCKETS>>

GetHostName ==
    \E name_length \in NameLengths, native_ret \in {0, 0 - 1} :
        \E detour \in {Success(n) : n \in HostLengths}
                      \cup {Bypass("MissingConfig"), Error("remote")} :
            /\ detour.kind # "Bypass" => native_ret = 0
            /\ HookDone("gethostname", <<NamePtr, name_length>>, detour,
                        gethostname_detour(NamePtr, name_length, detour, native_ret))
            /\ UNCHANGED <<osOpen, SOCKETS>>

GetHostByName ==
    \E raw_name \in {NULL, NamePtr}, native_ret \in {NULL, LibcHostent} :
        \E detour \in {Success(StaticHostent), Bypass("NullPointer"), Error("remote")} :
            /\ raw_name = NULL => detour.kind = "Bypass"
            /\ detour.kind # "Bypass" => native_ret = NULL
            /\ HookDone("gethostbyname", <<raw_name>>, detour,
                        gethostbyname_detour(raw_name, detour, native_ret))
            /\ UNCHANGED <<osOpen, SOCKETS>>

----------------------------------------------------------------------------
(* socket/hooks.rs: enable_socket_hooks                                    *)

(* One replace! of the function: the symbol, the platform it is compiled   *)
(* for, and whether it stands inside `if enabled_remote_dns`               *)
Replace(symbol, os, dns) == [os |-> os, symbol |-> symbol, dns |-> dns]

(* The replace! statements in program order.                               *)
(* The mutant has the getaddrinfo hook outside the `if`.                   *)
InstallPlan_AlwaysGetAddrInfo ==
    << Replace("socket", "any", FALSE), Replace("recvfrom", "any", FALSE),
       Replace("sendto", "any", FALSE), Replace("recvmsg", "any", FALSE),
       Replace("sendmsg", "any", FALSE), Replace("bind", "any", FALSE),
       Replace("listen", "any", FALSE), Replace("connect", "any", FALSE),
       Replace("_connect$NOCANCEL", "any", FALSE), Replace("fcntl", "any", FALSE),
       Replace("dup", "any", FALSE), Replace("dup2", "any", FALSE),
       Replace("getpeername", "any", FALSE), Replace("getsockname", "any", FALSE),
       Replace("gethostname", "any", FALSE), Replace("uv__accept4", "linux", FALSE),
       Replace("accept4", "linux", FALSE), Replace("dup3", "linux", FALSE),
       Replace("accept", "any", FALSE), Replace("_accept$NOCANCEL", "any", FALSE),
       Replace("gethostbyname", "any", TRUE), Replace("getaddrinfo", "any", FALSE),
       Replace("freeaddrinfo", "any", TRUE),
       Replace("dns_configuration_copy", "macos", TRUE),
       Replace("dns_configuration_free", "macos", TRUE) >>

InstallPlan ==
    << Replace("socket", "any", FALSE), Replace("recvfrom", "any", FALSE),
       Replace("sendto", "any", FALSE), Replace("recvmsg", "any", FALSE),
       Replace("sendmsg", "any", FALSE), Replace("bind", "any", FALSE),
       Replace("listen", "any", FALSE), Replace("connect", "any", FALSE),
       Replace("_connect$NOCANCEL", "any", FALSE), Replace("fcntl", "any", FALSE),
       Replace("dup", "any", FALSE), Replace("dup2", "any", FALSE),
       Replace("getpeername", "any", FALSE), Replace("getsockname", "any", FALSE),
       Replace("gethostname", "any", FALSE), Replace("uv__accept4", "linux", FALSE),
       Replace("accept4", "linux", FALSE), Replace("dup3", "linux", FALSE),
       Replace("accept", "any", FALSE), Replace("_accept$NOCANCEL", "any", FALSE),
       Replace("gethostbyname", "any", TRUE), Replace("getaddrinfo", "any", TRUE),
       Replace("freeaddrinfo", "any", TRUE),
       Replace("dns_configuration_copy", "macos", TRUE),
       Replace("dns_configuration_free", "macos", TRUE) >>

Symbols == {InstallPlan[i].symbol : i \in 1..Len(InstallPlan)}

(* The statement is compiled in and its `if` is taken *)
Executes(stmt) ==
    /\ stmt.os \in {"any", target_os}
    /\ stmt.dns => enabled_remote_dns

(* No installation is under way *)
InstallIdle ==
    /\ enabled_remote_dns = FALSE
    /\ target_os = "linux"
    /\ installPc = 0
    /\ replaced = [sym \in Symbols |-> 0]

(* enable_socket_hooks is entered with either value of its argument, on    *)
(* either platform                                                         *)
InstallInit ==
    /\ enabled_remote_dns \in BOOLEAN
    /\ target_os \in {"linux", "macos"}
    /\ installPc = 0
    /\ replaced = [sym \in Symbols |-> 0]

(* The next replace! of the function runs *)
ReplaceSymbol ==
    /\ installPc < Len(InstallPlan)
    /\ Executes(InstallPlan[installPc + 1])
    /\ installPc' = installPc + 1
    /\ replaced' = [replaced EXCEPT ![InstallPlan[installPc + 1].symbol] = @ + 1]
    /\ UNCHANGED <<enabled_remote_dns, target_os, fileVars, pathVars, addrVars,
                   relayVars, sockVars, lockVars, policyVars, operatorVars>>

(* The next replace! is not compiled for the platform, or its `if` is not  *)
(* taken                                                                   *)
SkipSymbol ==
    /\ installPc < Len(InstallPlan)
    /\ ~Executes(InstallPlan[installPc + 1])
    /\ installPc' = installPc + 1
    /\ UNCHANGED <<enabled_remote_dns, target_os, replaced, fileVars, pathVars,
                   addrVars, relayVars, sockVars, lockVars, policyVars, operatorVars>>

InstallNext == ReplaceSymbol \/ SkipSymbol

----------------------------------------------------------------------------
(* file/ops.rs: the OPEN_FILES mutex                                       *)

NumThreads == 2

Threads == 1..NumThreads

(* The operations that lock the table: the lookup of get_remote_fd and     *)
(* fdopendir, the insert of open and openat, and the removal named in the  *)
(* comment of Drop                                                         *)
TableOps == {"get", "insert", "remove"}

Idle == [op |-> "none", pc |-> "idle", last |-> FALSE]

(* No thread is in the table *)
LockIdle ==
    /\ holder = 0
    /\ thread = [t \in Threads |-> Idle]
    /\ trace_enabled = FALSE

(* The process runs with or without spans of level trace being recorded *)
LockInit ==
    /\ holder = 0
    /\ thread = [t \in Threads |-> Idle]
    /\ trace_enabled \in BOOLEAN

(* A thread reaches OPEN_FILES.lock() in one of the operations. `last`     *)
(* says that the insert replaces, or the removal takes out, an entry whose *)
(* Arc is the last one of its RemoteFile.                                  *)
CallLock(t) ==
    /\ thread[t].pc = "idle"
    /\ \E op \in TableOps, last \in BOOLEAN :
        /\ (op = "get" => ~last)
        /\ thread' = [thread EXCEPT ![t] = [op |-> op, pc |-> "lock", last |-> last]]
    /\ UNCHANGED <<holder, trace_enabled, fileVars, pathVars, addrVars, relayVars,
                   sockVars, installVars, policyVars, operatorVars>>

(* OPEN_FILES.lock() returns the guard once the mutex is free *)
Lock(t) ==
    /\ thread[t].pc = "lock"
    /\ holder = 0
    /\ holder' = t
    /\ thread' = [thread EXCEPT ![t].pc = "held"]
    /\ UNCHANGED <<trace_enabled, fileVars, pathVars, addrVars, relayVars,
                   sockVars, installVars, policyVars, operatorVars>>

(* get, insert or remove on the map. The value insert or remove returns is *)
(* a temporary of the same statement as the guard and is dropped before    *)
(* it: the last Arc of an entry runs Drop for RemoteFile under the lock.   *)
TableOp(t) ==
    /\ thread[t].pc = "held"
    /\ thread' = [thread EXCEPT ![t].pc = IF thread[t].last THEN "drop" ELSE "unlock"]
    /\ UNCHANGED <<holder, trace_enabled, fileVars, pathVars, addrVars, relayVars,
                   sockVars, installVars, policyVars, operatorVars>>

(* Drop for RemoteFile calls remote_close, which carries                   *)
(* instrument(level = "trace"): with the level enabled the span is         *)
(* recorded, and recording may need a write, which is hooked and looks the *)
(* descriptor up with get_remote_fd, that is OPEN_FILES.lock() again       *)
TraceRemoteClose(t) ==
    /\ thread[t].pc = "drop"
    /\ trace_enabled
    /\ thread' = [thread EXCEPT ![t].pc = "relock"]
    /\ UNCHANGED <<holder, trace_enabled, fileVars, pathVars, addrVars, relayVars,
                   sockVars, installVars, policyVars, operatorVars>>

(* remote_close sends the CloseFileRequest (the span, if any, needed no    *)
(* write) and Drop returns                                                 *)
RemoteClose(t) ==
    /\ thread[t].pc = "drop"
    /\ thread' = [thread EXCEPT ![t].pc = "unlock"]
    /\ UNCHANGED <<holder, trace_enabled, fileVars, pathVars, addrVars, relayVars,
                   sockVars, installVars, policyVars, operatorVars>>

(* The guard is dropped at the end of the statement *)
Unlock(t) ==
    /\ thread[t].pc = "unlock"
    /\ holder = t
    /\ holder' = 0
    /\ thread' = [thread EXCEPT ![t] = Idle]
    /\ UNCHANGED <<trace_enabled, fileVars, pathVars, addrVars, relayVars,
                   sockVars, installVars, policyVars, operatorVars>>

LockNext ==
    \E t \in Threads :
        \/ CallLock(t)
        \/ Lock(t)
        \/ TableOp(t)
        \/ TraceRemoteClose(t)
        \/ RemoteClose(t)
        \/ Unlock(t)

----------------------------------------------------------------------------
(* file/ops.rs: absolute_path                                              *)
(*                                                                         *)
(* A path is the sequence of its segments between '/' separators:          *)
(* "/a/b" is <<"", "a", "b">>, "/" is <<"", "">>, "a/" is <<"a", "">>.     *)

MaxSegs == 5

Segments == {"", ".", "..", "a", "b", "c"}

RECURSIVE SeqsUpTo(_, _)
SeqsUpTo(S, n) ==
    IF n = 0 THEN {<<>>}
    ELSE LET shorter == SeqsUpTo(S, n - 1)
         IN shorter \cup {Append(q, x) : q \in {t \in shorter : Len(t) = n - 1}, x \in S}

(* Every path of at most MaxSegs segments *)
Paths == SeqsUpTo(Segments, MaxSegs) \ {<<>>}

(* Path::has_root: the path starts with '/' *)
HasRoot(p) == Len(p) >= 2 /\ p[1] = ""

(* Path::components: RootDir for a leading '/', CurDir for a leading "."   *)
(* of a path without root, ParentDir for "..", Normal for a name; empty    *)
(* segments and every other "." are skipped.                               *)
RECURSIVE ComponentsFrom(_, _)
ComponentsFrom(p, i) ==
    IF i > Len(p) THEN <<>>
    ELSE LET rest == ComponentsFrom(p, i + 1)
             seg == p[i]
         IN IF seg = "" THEN rest
            ELSE IF seg = "."
            THEN (IF i = 1 THEN <<[kind |-> "CurDir", name |-> "."]>> \o rest ELSE rest)
            ELSE IF seg = ".." THEN <<[kind |-> "ParentDir", name |-> ".."]>> \o rest
            ELSE <<[kind |-> "Normal", name |-> seg]>> \o rest

Components(p) ==
    (IF HasRoot(p) THEN <<[kind |-> "RootDir", name |-> "/"]>> ELSE <<>>)
    \o ComponentsFrom(p, 1)

(* PathBuf::new() followed by push("/") *)
RootPath == <<"", "">>

(* PathBuf::push of a name onto an absolute path *)
Push(buf, name) == IF buf = RootPath THEN <<"", name>> ELSE Append(buf, name)

(* PathBuf::pop: drops the last component; the root has no parent and stays *)
Pop(buf) ==
    IF buf = RootPath THEN buf
    ELSE IF Len(buf) = 2 THEN RootPath
    ELSE SubSeq(buf, 1, Len(buf) - 1)

(* The match of absolute_path's loop on one component.                     *)
(* The first mutant pushes a CurDir component, the second ignores ParentDir. *)
ApplyComponent_KeepCurDir(buf, c) ==
    IF c.kind = "Normal" \/ c.kind = "CurDir" THEN Push(buf, c.name)
    ELSE IF c.kind = "ParentDir" THEN Pop(buf)
    ELSE buf

ApplyComponent_NoPop(buf, c) ==
    IF c.kind = "Normal" THEN Push(buf, c.name)
    ELSE buf

ApplyComponent(buf, c) ==
    IF c.kind = "Normal" THEN Push(buf, c.name)
    ELSE IF c.kind = "ParentDir" THEN Pop(buf)
    ELSE buf

RECURSIVE ApplyAll(_, _, _)
ApplyAll(buf, cs, i) ==
    IF i > Len(cs) THEN buf ELSE ApplyAll(ApplyComponent(buf, cs[i]), cs, i + 1)

absolute_path(p) == ApplyAll(RootPath, Components(p), 1)

(* The path layer at rest in the other specifications *)
PathIdle ==
    /\ pathIn = RootPath
    /\ pathPc = "input"
    /\ norm = <<>>
    /\ norm2 = <<>>

(* Any bounded path may be handed to absolute_path *)
PathInit ==
    /\ pathIn \in Paths
    /\ pathPc = "input"
    /\ norm = <<>>
    /\ norm2 = <<>>

Normalize ==
    /\ pathPc = "input"
    /\ pathPc' = "once"
    /\ norm' = absolute_path(pathIn)
    /\ UNCHANGED <<pathIn, norm2, fileVars, sockVars, addrVars, relayVars, installVars, lockVars, policyVars, operatorVars>>

NormalizeAgain ==
    /\ pathPc = "once"
    /\ pathPc' = "twice"
    /\ norm2' = absolute_path(norm)
    /\ UNCHANGED <<pathIn, norm, fileVars, sockVars, addrVars, relayVars, installVars, lockVars, policyVars, operatorVars>>

PathNext == Normalize \/ NormalizeAgain

----------------------------------------------------------------------------
(* file/ops.rs: the path operations and the file filter                    *)

(* The paths handed to the operations: absolute, absolute and remapped,    *)
(* absolute with a ".." in it, relative, and the empty path                *)
EmptyPath == <<"">>
PolicyPaths == {<<"", "a">>, <<"", "b">>, <<"", "c", "..", "a">>, <<"a">>, EmptyPath}

(* Path::is_relative / is_absolute *)
is_relative(path) == ~HasRoot(path)

(* remap_path!: file_remapper().change_path(path), with two mappings       *)
(* configured, of /a to /b and of /b to /c                                 *)
change_path(path) ==
    IF path = <<"", "a">> THEN <<"", "b">>
    ELSE IF path = <<"", "b">> THEN <<"", "c">>
    ELSE path

(* The Detour<PathBuf> a hook hands to an operation *)
PathDetours == {Success(path) : path \in PolicyPaths} \cup {Bypass("CStrConversion")}

(* One call of file_filter().continue_or_bypass_with(path, write, ..) *)
Query(path, write) == [path |-> path, write |-> write]

(* The answers of the filter to the first and the second call of one       *)
(* operation; it is not cached, so they are independent                    *)
Answers == [1..2 -> Decisions]

(* Option: None, or Some(value) *)
None == [some |-> FALSE]
Some(v) == [val |-> v, some |-> TRUE]

(* A request that names a file by path, by remote fd, or by both *)
PathRequest(type, fd, path) == [type |-> type, fd |-> fd, path |-> path]

(* What an operation did: the kind of Detour it returned, the calls of the *)
(* filter it made, how often it applied remap_path!, and the requests it   *)
(* sent                                                                    *)
Asked(ret, asked, remaps, sent) ==
    [ret |-> ret, sent |-> sent, asked |-> asked, remaps |-> remaps]

(* The Detour of the remote request that follows the filter *)
Remote(ok) == IF ok THEN "Success" ELSE "Error"

(* Detour::Error(HookError::e), returned before anything is asked or sent *)
Failed(e) == [ret |-> "Error", sent |-> <<>>, asked |-> <<>>, remaps |-> 0, error |-> e]

(* Detour::Success(value) at the end of the call r *)
Returning(r, value) ==
    [ret |-> r.ret, sent |-> r.sent, asked |-> r.asked, value |-> Some(value),
     remaps |-> r.remaps]

(* The value a call returned, when the model keeps it *)
ValueOf(r) == IF "value" \in DOMAIN r THEN r.value ELSE None

(* The HookError of a call, when it returned one of its own *)
ErrorOf(r) == IF "error" \in DOMAIN r THEN r.error ELSE "none"

(* What get_remote_fd may return *)
RemoteFdDetours == {Success(1), Bypass("LocalFdNotFound")}

(* open, as far as the path goes: path?, check_relative_paths!,            *)
(* remap_path!, ensure_not_ignored!, then the remote open                  *)
open_path(path, write, answers, ok) ==
    IF path.kind # "Success" THEN Asked(path.kind, <<>>, 0, <<>>)
    ELSE IF is_relative(path.val) THEN Asked("Bypass", <<>>, 0, <<>>)
    ELSE LET remapped == change_path(path.val)
         IN IF answers[1] = "bypass"
            THEN Asked("Bypass", <<Query(remapped, write)>>, 1, <<>>)
            ELSE Asked(Remote(ok), <<Query(remapped, write)>>, 1,
                       <<PathRequest("OpenFileRequest", None, Some(remapped))>>)

(* openat: an absolute path, or AT_FDCWD, goes to open after remap_path!;  *)
(* a path relative to a descriptor asks nothing                            *)
openat_path(fd, path, write, answers, ok, remote_fd) ==
    IF path.kind # "Success" THEN Asked(path.kind, <<>>, 0, <<>>)
    ELSE IF HasRoot(path.val) \/ fd = AT_FDCWD
    THEN LET opened == open_path(Success(change_path(path.val)), write, answers, ok)
         IN [opened EXCEPT !.remaps = @ + 1]
    ELSE IF remote_fd.kind # "Success" THEN Asked(remote_fd.kind, <<>>, 0, <<>>)
    ELSE Asked(Remote(ok), <<>>, 0,
               <<PathRequest("OpenRelativeFileRequest", Some(remote_fd.val),
                             Some(path.val))>>)

(* read_link: remap_path!(path?), check_relative_paths!, ensure_not_ignored! *)
(* then the request; reply is what make_proxy_request_with_response gives: *)
(* a failure of the exchange itself ("ProxyError", taken by the ?), the    *)
(* response ("Ok"), ResponseError::NotImplemented or another ResponseError *)
Replies == {"Ok", "NotImplemented", "OtherError", "ProxyError"}

ReadLinkOutcome_ErrorOnNotImplemented(reply) ==
    IF reply = "Ok" THEN "Success" ELSE "Error"

ReadLinkOutcome(reply) ==
    IF reply = "ProxyError" THEN "Error"
    ELSE IF reply = "Ok" THEN "Success"
    ELSE IF reply = "NotImplemented" THEN "Bypass"
    ELSE "Error"

read_link(path, answers, reply) ==
    IF path.kind # "Success" THEN Asked(path.kind, <<>>, 0, <<>>)
    ELSE LET remapped == change_path(path.val)
         IN IF is_relative(remapped) THEN Asked("Bypass", <<>>, 1, <<>>)
            ELSE IF answers[1] = "bypass"
            THEN Asked("Bypass", <<Query(remapped, FALSE)>>, 1, <<>>)
            ELSE Asked(ReadLinkOutcome(reply), <<Query(remapped, FALSE)>>, 1,
                       <<PathRequest("ReadLinkFileRequest", None, Some(remapped))>>)

(* access: path?, check_relative_paths!, remap_path!, ensure_not_ignored! *)
access(path, mode, answers, ok) ==
    IF path.kind # "Success" THEN Asked(path.kind, <<>>, 0, <<>>)
    ELSE IF is_relative(path.val) THEN Asked("Bypass", <<>>, 0, <<>>)
    ELSE LET remapped == change_path(path.val)
         IN IF answers[1] = "bypass"
            THEN Asked("Bypass", <<Query(remapped, FALSE)>>, 1, <<>>)
            ELSE Asked(Remote(ok), <<Query(remapped, FALSE)>>, 1,
                       <<PathRequest("AccessFileRequest", None, Some(remapped))>>)

(* xstat(rawish_path, fd, follow_symlink): fstatat, stat/lstat, fstat.     *)
(* fstatat with AT_FDCWD asks the filter about the remapped clone and      *)
(* keeps path itself for the request.                                      *)
xstat(rawish_path, fd, follow_symlink, answers, ok, remote_fd) ==
    IF rawish_path.some /\ fd.some
    THEN IF rawish_path.val.kind # "Success" THEN Asked(rawish_path.val.kind, <<>>, 0, <<>>)
         ELSE LET path == rawish_path.val.val IN
              IF fd.val = AT_FDCWD
              THEN IF is_relative(path) THEN Asked("Bypass", <<>>, 0, <<>>)
                   ELSE IF answers[1] = "bypass"
                   THEN Asked("Bypass", <<Query(change_path(path), FALSE)>>, 1, <<>>)
                   ELSE Asked(Remote(ok), <<Query(change_path(path), FALSE)>>, 1,
                              <<PathRequest("XstatRequest", None, Some(path))>>)
              ELSE IF remote_fd.kind # "Success" THEN Asked(remote_fd.kind, <<>>, 0, <<>>)
              ELSE Asked(Remote(ok), <<>>, 0,
                         <<PathRequest("XstatRequest", Some(remote_fd.val), Some(path))>>)
    ELSE IF rawish_path.some
    THEN IF rawish_path.val.kind # "Success" THEN Asked(rawish_path.val.kind, <<>>, 0, <<>>)
         ELSE IF is_relative(rawish_path.val.val) THEN Asked("Bypass", <<>>, 0, <<>>)
         ELSE LET remapped == change_path(rawish_path.val.val)
              IN IF answers[1] = "bypass"
                 THEN Asked("Bypass", <<Query(remapped, FALSE)>>, 1, <<>>)
                 ELSE Asked(Remote(ok), <<Query(remapped, FALSE)>>, 1,
                            <<PathRequest("XstatRequest", None, Some(remapped))>>)
    ELSE IF fd.some
    THEN IF remote_fd.kind # "Success" THEN Asked(remote_fd.kind, <<>>, 0, <<>>)
         ELSE Asked(Remote(ok), <<>>, 0,
                    <<PathRequest("XstatRequest", Some(remote_fd.val), None)>>)
    ELSE Asked("Error", <<>>, 0, <<>>)

(* The pointers and flags statx is called with *)
StatxBufPtr == 706
StatxPathPtr == 707
STATX__RESERVED == 1
AT_EMPTY_PATH == 2

(* statx_logic(dir_fd, path_name, flags, mask, statx_buf); path is what    *)
(* path_name points to, and flags and mask are sets of bits. The path is   *)
(* never handed to remap_path!.                                            *)
(* The mutant leaves the test of the mask out.                              *)
statx_logic_AnyMask(dir_fd, path_name, path, flags, mask, statx_buf, answers, ok, remote_fd) ==
    IF statx_buf = NULL THEN Failed("BadPointer")
    ELSE IF path_name = NULL THEN Failed("BadPointer")
    ELSE IF HasRoot(path)
    THEN IF answers[1] = "bypass"
         THEN Asked("Bypass", <<Query(path, FALSE)>>, 0, <<>>)
         ELSE Asked(Remote(ok), <<Query(path, FALSE)>>, 0,
                    <<PathRequest("XstatRequest", None, Some(path))>>)
    ELSE IF path # EmptyPath /\ dir_fd = AT_FDCWD THEN Asked("Bypass", <<>>, 0, <<>>)
    ELSE IF path # EmptyPath
    THEN IF remote_fd.kind # "Success" THEN Asked(remote_fd.kind, <<>>, 0, <<>>)
         ELSE Asked(Remote(ok), <<>>, 0,
                    <<PathRequest("XstatRequest", Some(remote_fd.val), Some(path))>>)
    ELSE IF AT_EMPTY_PATH \in flags
    THEN IF remote_fd.kind # "Success" THEN Asked(remote_fd.kind, <<>>, 0, <<>>)
         ELSE Asked(Remote(ok), <<>>, 0,
                    <<PathRequest("XstatRequest", Some(remote_fd.val), None)>>)
    ELSE Failed("EmptyPath")

statx_logic(dir_fd, path_name, path, flags, mask, statx_buf, answers, ok, remote_fd) ==
    IF statx_buf = NULL THEN Failed("BadPointer")
    ELSE IF path_name = NULL THEN Failed("BadPointer")
    ELSE IF STATX__RESERVED \in mask THEN Failed("BadFlag")
    ELSE IF HasRoot(path)
    THEN IF answers[1] = "bypass"
         THEN Asked("Bypass", <<Query(path, FALSE)>>, 0, <<>>)
         ELSE Asked(Remote(ok), <<Query(path, FALSE)>>, 0,
                    <<PathRequest("XstatRequest", None, Some(path))>>)
    ELSE IF path # EmptyPath /\ dir_fd = AT_FDCWD THEN Asked("Bypass", <<>>, 0, <<>>)
    ELSE IF path # EmptyPath
    THEN IF remote_fd.kind # "Success" THEN Asked(remote_fd.kind, <<>>, 0, <<>>)
         ELSE Asked(Remote(ok), <<>>, 0,
                    <<PathRequest("XstatRequest", Some(remote_fd.val), Some(path))>>)
    ELSE IF AT_EMPTY_PATH \in flags
    THEN IF remote_fd.kind # "Success" THEN Asked(remote_fd.kind, <<>>, 0, <<>>)
         ELSE Asked(Remote(ok), <<>>, 0,
                    <<PathRequest("XstatRequest", Some(remote_fd.val), None)>>)
    ELSE Failed("EmptyPath")

(* The availability bits of stx_mask (linux/stat.h, through libc) *)
STATX_TYPE == 1
STATX_MODE == 2
STATX_NLINK == 4
STATX_UID == 8
STATX_GID == 16
STATX_ATIME == 32
STATX_MTIME == 64
STATX_CTIME == 128
STATX_INO == 256
STATX_SIZE == 512
STATX_BLOCKS == 1024

(* a & b on unsigned integers *)
RECURSIVE BitAnd(_, _)
BitAnd(a, b) ==
    IF a = 0 \/ b = 0 THEN 0
    ELSE (a % 2) * (b % 2) + 2 * BitAnd(a \div 2, b \div 2)

(* Duration::from_nanos splits at this many nanoseconds *)
NANOS_PER_SEC == 1000000000

(* nanos_to_statx: nanos.try_into().unwrap_or(0) turns a negative i64 into *)
(* 0; as_secs() of a u64 of nanoseconds is below 2^64 / 10^9 and always    *)
(* fits i64, so the unwrap_or(i64::MAX) of tv_sec is never taken.          *)
nanos_to_statx_Wrapping(nanos) ==
    [tv_sec |-> nanos \div NANOS_PER_SEC, tv_nsec |-> nanos % NANOS_PER_SEC]

nanos_to_statx(nanos) ==
    LET duration == IF nanos < 0 THEN 0 ELSE nanos
    IN [tv_sec |-> duration \div NANOS_PER_SEC, tv_nsec |-> duration % NANOS_PER_SEC]

(* What statx_logic writes to *statx_buf after a successful request: the   *)
(* struct is zeroed, the two masks are set and the fields are copied from  *)
(* the metadata of the response                                            *)
StatxMask ==
    BitAnd(STATX_TYPE, BitAnd(STATX_MODE, BitAnd(STATX_NLINK, BitAnd(STATX_UID,
    BitAnd(STATX_GID, BitAnd(STATX_ATIME, BitAnd(STATX_MTIME, BitAnd(STATX_CTIME,
    BitAnd(STATX_INO, BitAnd(STATX_SIZE, STATX_BLOCKS))))))))))

statx_fill(response) ==
    [written |-> TRUE,
     stx_mask |-> StatxMask,
     stx_attributes_mask |-> 0,
     stx_atime |-> nanos_to_statx(response.access_time),
     stx_ctime |-> nanos_to_statx(response.creation_time),
     stx_mtime |-> nanos_to_statx(response.modification_time)]

(* realpath: path?, check_relative_paths!, remap_path!, absolute_path,     *)
(* ensure_not_ignored!, then xstat(Some(realpath), None, true)?, which     *)
(* remaps and asks the filter on its own                                   *)
realpath(path, answers, ok) ==
    IF path.kind # "Success" THEN Asked(path.kind, <<>>, 0, <<>>)
    ELSE IF is_relative(path.val) THEN Asked("Bypass", <<>>, 0, <<>>)
    ELSE LET resolved == absolute_path(change_path(path.val))
             first == <<Query(resolved, FALSE)>>
         IN IF answers[1] = "bypass" THEN Asked("Bypass", first, 1, <<>>)
            ELSE LET exists == xstat(Some(Success(resolved)), None, TRUE,
                                     <<answers[2], answers[2]>>, ok, Bypass("LocalFdNotFound"))
                     done == Asked(exists.ret, first \o exists.asked, 1 + exists.remaps,
                                   exists.sent)
                 IN IF exists.ret = "Success" THEN Returning(done, resolved) ELSE done

(* *statx_buf when nothing was written to it *)
NoBuf == [written |-> FALSE]

(* No path operation has run *)
NoPathOp == [ret |-> "none", sent |-> <<>>, args |-> <<>>, op |-> "none", asked |-> <<>>,
             value |-> None, buf |-> NoBuf, remaps |-> 0, error |-> "none",
             reply |-> "none", response |-> NoBuf]

PolicyIdle == lastPath = NoPathOp

(* The end of a path operation *)
StatxDone(op, args, r, response) ==
    /\ lastPath' = [ret |-> r.ret, sent |-> r.sent, args |-> args, op |-> op,
                    asked |-> r.asked, value |-> None,
                    buf |-> IF r.ret = "Success" THEN statx_fill(response) ELSE NoBuf,
                    remaps |-> r.remaps,
                    error |-> ErrorOf(r), reply |-> "none",
                    response |-> IF r.ret = "Success" THEN response ELSE NoBuf]
    /\ UNCHANGED <<fileVars, pathVars, addrVars, relayVars, sockVars, installVars,
                   lockVars, operatorVars>>

(* The end of a path operation that looked at the peer's reply; a call    *)
(* that sent nothing got none                                             *)
Replied(op, args, r, reply) ==
    /\ lastPath' = [ret |-> r.ret, sent |-> r.sent, args |-> args, op |-> op,
                    asked |-> r.asked, value |-> ValueOf(r), buf |-> NoBuf,
                    remaps |-> r.remaps, error |-> ErrorOf(r),
                    reply |-> IF r.sent = <<>> THEN "none" ELSE reply,
                    response |-> NoBuf]
    /\ UNCHANGED <<fileVars, pathVars, addrVars, relayVars, sockVars, installVars,
                   lockVars, operatorVars>>

PathOpDone(op, args, r) == Replied(op, args, r, "none")

(* The descriptors handed to openat, fstatat and statx *)
DirFds == {AT_FDCWD, 0}

(* The timestamps of the metadata the peer answers with, in nanoseconds *)
Timestamps == <<0 - 1, NANOS_PER_SEC - 1, NANOS_PER_SEC + 1, 2147483647, 0,
                NANOS_PER_SEC, 0 - 2147483647>>

(* Each value in each of the three fields *)
Metadata ==
    {[access_time |-> Timestamps[i],
      creation_time |-> Timestamps[(i % Len(Timestamps)) + 1],
      modification_time |-> Timestamps[((i + 1) % Len(Timestamps)) + 1]] :
        i \in 1..Len(Timestamps)}

OpenPath ==
    \E path \in PathDetours, write \in BOOLEAN, answers \in Answers, ok \in BOOLEAN :
        PathOpDone("open", <<path, write>>, open_path(path, write, answers, ok))

OpenAtPath ==
    \E fd \in DirFds, path \in PathDetours, write \in BOOLEAN, answers \in Answers,
       ok \in BOOLEAN, remote_fd \in RemoteFdDetours :
        PathOpDone("openat", <<fd, path, write>>,
                   openat_path(fd, path, write, answers, ok, remote_fd))

ReadLink ==
    \E path \in PathDetours, answers \in Answers, reply \in Replies :
        Replied("readlink", <<path>>, read_link(path, answers, reply), reply)

Access ==
    \E path \in PathDetours, answers \in Answers, ok \in BOOLEAN :
        PathOpDone("access", <<path>>, access(path, 0, answers, ok))

Xstat ==
    \E rawish_path \in {None} \cup {Some(path) : path \in PathDetours},
       fd \in {None} \cup {Some(fd) : fd \in DirFds},
       answers \in Answers, ok \in BOOLEAN, remote_fd \in RemoteFdDetours :
        PathOpDone("xstat", <<rawish_path, fd>>,
                   xstat(rawish_path, fd, TRUE, answers, ok, remote_fd))

Statx ==
    \E dir_fd \in DirFds, path_name \in {NULL, StatxPathPtr}, path \in PolicyPaths,
       flags \in {{}, {AT_EMPTY_PATH}}, mask \in {{}, {STATX__RESERVED}},
       statx_buf \in {NULL, StatxBufPtr},
       answers \in Answers, ok \in BOOLEAN, remote_fd \in RemoteFdDetours :
        /\ (path_name = NULL => path = EmptyPath)
        /\ LET r == statx_logic(dir_fd, path_name, path, flags, mask, statx_buf,
                                answers, ok, remote_fd)
               args == <<dir_fd, path_name, path, flags, mask, statx_buf>>
           IN IF r.ret = "Success"
              THEN \E response \in Metadata : StatxDone("statx", args, r, response)
              ELSE StatxDone("statx", args, r, NoBuf)

RealPath ==
    \E path \in PathDetours, answers \in Answers, ok \in BOOLEAN :
        PathOpDone("realpath", <<path>>, realpath(path, answers, ok))

PolicyNext == OpenPath \/ OpenAtPath \/ ReadLink \/ Access \/ Xstat \/ Statx \/ RealPath

----------------------------------------------------------------------------
(* socket/hooks.rs: getaddrinfo_detour and freeaddrinfo_detour             *)

MaxAddr == 3
MaxChain == 2

Addr == 1..MaxAddr

(* The allocations behind one node built by the layer *)
Parts == {"addrinfo", "ai_addr", "ai_canonname"}

(* The nodes met from p by following ai_next until the null pointer *)
RECURSIVE Chain(_, _)
Chain(nxt, p) == IF p = NULL THEN <<>> ELSE <<p>> \o Chain(nxt, nxt[p])

Range(q) == {q[i] : i \in 1..Len(q)}

(* A list of n nodes laid out at the addresses of `at`, linked in          *)
(* ascending order; its head is the lowest address                         *)
ListHead(at) == CHOOSE a \in at : \A b \in at : a <= b

Linked(nxt, at) ==
    [a \in Addr |->
        IF a \in at
        THEN (IF \E b \in at : b > a
              THEN CHOOSE b \in at : b > a /\ \A c \in at : c > a => b <= c
              ELSE NULL)
        ELSE nxt[a]]

FreeAddrs == {a \in Addr : heap[a] = "free"}

ListPlaces == {at \in SUBSET FreeAddrs : Cardinality(at) \in 1..MaxChain}

(* getaddrinfo_detour: the list built by ops::getaddrinfo is handed to the *)
(* caller and the address of its head is inserted into MANAGED_ADDRINFO;   *)
(* a bypass calls FN_GETADDRINFO with the caller's arguments, whose list   *)
(* is libc's when it returns 0; an error gives -1                          *)
getaddrinfo_detour(args, result, at, native_ret) ==
    IF result = "Success"
    THEN [heap |-> [a \in Addr |-> IF a \in at THEN "layer" ELSE heap[a]],
          ai_next |-> Linked(ai_next, at),
          ret |-> 0,
          native |-> <<>>, registry |-> MANAGED_ADDRINFO \cup {ListHead(at)}]
    ELSE IF result = "Bypass"
    THEN [heap |-> [a \in Addr |->
                      IF native_ret = 0 /\ a \in at THEN "libc" ELSE heap[a]],
          ai_next |-> IF native_ret = 0 THEN Linked(ai_next, at) ELSE ai_next,
          ret |-> native_ret,
          native |-> <<NativeCall("FN_GETADDRINFO", args, native_ret)>>,
          registry |-> MANAGED_ADDRINFO]
    ELSE [heap |-> heap, ai_next |-> ai_next, ret |-> 0 - 1,
          native |-> <<>>, registry |-> MANAGED_ADDRINFO]

(* freeaddrinfo_detour: a registered pointer is removed from the registry  *)
(* and its list is walked, dropping each node with its ai_addr and         *)
(* ai_canonname and removing the address of each next node from the        *)
(* registry; any other pointer goes to FN_FREEADDRINFO.                    *)
(* The mutant drops the first node only.                                   *)
freeaddrinfo_detour_HeadOnly(addrinfo) ==
    IF addrinfo \in MANAGED_ADDRINFO
    THEN [dropped |-> {<<addrinfo, part>> : part \in Parts},
          native |-> <<>>,
          registry |-> MANAGED_ADDRINFO \ {addrinfo, ai_next[addrinfo]}]
    ELSE [dropped |-> {}, native |-> <<addrinfo>>, registry |-> MANAGED_ADDRINFO]

freeaddrinfo_detour(addrinfo) ==
    IF addrinfo \in MANAGED_ADDRINFO
    THEN LET walked == Chain(ai_next, addrinfo)
         IN [dropped |-> {<<walked[i], part>> : i \in 1..Len(walked), part \in Parts},
             native |-> <<>>,
             registry |-> (MANAGED_ADDRINFO \ {addrinfo})
                              \ {ai_next[walked[i]] : i \in 1..Len(walked)}]
    ELSE [dropped |-> {}, native |-> <<addrinfo>>, registry |-> MANAGED_ADDRINFO]

(* What libc's freeaddrinfo may do with a node it did not allocate: the    *)
(* behaviour is undefined, so the list is released, left alone, or the     *)
(* process dies                                                            *)
ForeignFreeOutcomes == {"released", "untouched", "crash"}

(* lastFree when the last call was not a freeaddrinfo *)
NoFree ==
    [dropped |-> {}, native |-> <<>>, addrinfo |-> NULL, managed |-> FALSE,
     chain |-> {}, nativeGotLayerNode |-> FALSE, walkerGotLibcNode |-> FALSE,
     outcome |-> "none"]

AddrInit ==
    /\ heap = [a \in Addr |-> "free"]
    /\ ai_next = [a \in Addr |-> NULL]
    /\ MANAGED_ADDRINFO = {}
    /\ lastFree = NoFree

Running == lastFree.outcome # "crash"

(* The arguments of getaddrinfo: node, service, hints, out_addr_info *)
ServicePtr == 703
HintsPtr == 704
OutAddrInfoPtr == 705
GetAddrInfoArgs == {<<node, ServicePtr, HintsPtr, OutAddrInfoPtr>> : node \in {NULL, NamePtr}}

(* EAI_FAIL *)
EAI_FAIL == 0 - 4

(* The end of a getaddrinfo call *)
GetAddrInfoDone(args, result, r) ==
    /\ heap' = r.heap
    /\ ai_next' = r.ai_next
    /\ MANAGED_ADDRINFO' = r.registry
    /\ lastFree' = NoFree
    /\ lastHook' = [ret |-> r.ret, hook |-> "getaddrinfo", args |-> args,
                    detour |-> result, native |-> r.native]
    /\ UNCHANGED <<fileVars, SOCKETS, pathVars, relayVars, installVars, lockVars, policyVars, operatorVars>>

(* getaddrinfo answered by the layer, with a list or with an error *)
GetAddrInfo ==
    /\ Running
    /\ \E args \in GetAddrInfoArgs :
        \/ \E at \in ListPlaces :
              GetAddrInfoDone(args, "Success", getaddrinfo_detour(args, "Success", at, 0))
        \/ GetAddrInfoDone(args, "Error", getaddrinfo_detour(args, "Error", {}, 0))

(* getaddrinfo bypassed to libc, which returns a list or fails *)
GetAddrInfoBypass ==
    /\ Running
    /\ \E args \in GetAddrInfoArgs :
        \/ \E at \in ListPlaces :
              GetAddrInfoDone(args, "Bypass", getaddrinfo_detour(args, "Bypass", at, 0))
        \/ GetAddrInfoDone(args, "Bypass",
                           getaddrinfo_detour(args, "Bypass", {}, EAI_FAIL))

(* freeaddrinfo on any node the caller still holds, head of its list or not *)
FreeAddrInfo ==
    /\ Running
    /\ \E addrinfo \in Addr, foreign \in ForeignFreeOutcomes :
        /\ heap[addrinfo] # "free"
        /\ LET r == freeaddrinfo_detour(addrinfo)
               byWalker == {d[1] : d \in r.dropped}
               toLibc == IF r.native = <<>> THEN {} ELSE Range(Chain(ai_next, r.native[1]))
               misuse == r.native # <<>> /\ heap[addrinfo] = "layer"
               outcome == IF misuse THEN foreign ELSE "ok"
               byLibc == IF outcome \in {"ok", "released"} THEN toLibc ELSE {}
           IN /\ (~misuse => foreign = "released")
              /\ heap' = [a \in Addr |-> IF a \in byWalker \cup byLibc THEN "free" ELSE heap[a]]
              /\ MANAGED_ADDRINFO' = r.registry
              /\ lastFree' = [dropped |-> r.dropped,
                              native |-> r.native,
                              addrinfo |-> addrinfo,
                              managed |-> addrinfo \in MANAGED_ADDRINFO,
                              chain |-> Range(Chain(ai_next, addrinfo)),
                              nativeGotLayerNode |-> \E a \in toLibc : heap[a] = "layer",
                              walkerGotLibcNode |-> \E a \in byWalker : heap[a] = "libc",
                              outcome |-> outcome]
    /\ lastHook' = NoHook
    /\ UNCHANGED <<ai_next, fileVars, SOCKETS, pathVars, relayVars, installVars, lockVars, policyVars, operatorVars>>

AddrNext == GetAddrInfo \/ GetAddrInfoBypass \/ FreeAddrInfo

----------------------------------------------------------------------------
(* kube/api.rs: wrap_raw_connection and the threads that block on it       *)

(* The capacity of both channels in the model *)
ChanCap == 2
NumCallers == 2
MaxFrames == 2
(* The log messages the agent writes in one run *)
MaxLogs == 1

Callers == 1..NumCallers

(* Frames on the transport: a response for a caller, a log message, or     *)
(* bytes that do not decode                                                *)
Response(t) == [kind |-> "Response", to |-> t]
LogMessage == [kind |-> "LogMessage", to |-> 0]
BadFrame == [kind |-> "Undecodable", to |-> 0]

NoMessage == [kind |-> "None", to |-> 0]

(* The frame decodes to a DaemonMessage *)
IsMessage(frame) == frame.kind \in {"Response", "LogMessage"}

(* The log messages of a sequence of frames, and how many they are *)
IsLog(frame) == frame.kind = "LogMessage"
Logs(fs) == Len(SelectSeq(fs, IsLog))

(* The messages of a sequence that are not log messages *)
NotLog(frame) == frame.kind # "LogMessage"

Selecting == [pc |-> "select", msg |-> NoMessage]
Stopped == [pc |-> "done", msg |-> NoMessage]

RelayInit ==
    /\ in_q = <<>>
    /\ out_q = <<>>
    /\ relay = Selecting
    /\ stream = "up"
    /\ frames = <<>>
    /\ atAgent = <<>>
    /\ caller = [t \in Callers |-> "idle"]
    /\ accepted = <<>>
    /\ written = <<>>
    /\ decoded = <<>>
    /\ delivered = <<>>
    /\ logged = 0

(* A thread starts a blocking request with in_tx.send *)
Issue(t) ==
    /\ caller[t] = "idle"
    /\ caller' = [caller EXCEPT ![t] = "sending"]
    /\ UNCHANGED <<in_q, out_q, relay, stream, frames, atAgent, histVars, fileVars, sockVars, pathVars, addrVars, installVars, lockVars, policyVars, operatorVars>>

(* in_tx.send completes: with an error once the task has dropped in_rx,    *)
(* which the caller sees as the disconnect error; otherwise when the       *)
(* channel has room, and the thread goes on to wait for its response       *)
Send(t) ==
    /\ caller[t] = "sending"
    /\ IF relay.pc = "done"
       THEN /\ caller' = [caller EXCEPT ![t] = "disconnected"]
            /\ UNCHANGED <<in_q, accepted>>
       ELSE /\ Len(in_q) < ChanCap
            /\ in_q' = Append(in_q, t)
            /\ accepted' = Append(accepted, t)
            /\ caller' = [caller EXCEPT ![t] = "waiting"]
    /\ UNCHANGED <<written, decoded, delivered, logged>>
    /\ UNCHANGED <<out_q, relay, stream, frames, atAgent, fileVars, sockVars, pathVars, addrVars, installVars, lockVars, policyVars, operatorVars>>

(* A waiting thread receives from out_rx: a buffered message, or None once *)
(* the task has dropped out_tx and the buffer is empty                     *)
Receive(t) ==
    /\ caller[t] = "waiting"
    /\ IF out_q # <<>>
       THEN /\ out_q' = Tail(out_q)
            /\ caller' = [caller EXCEPT ![t] = "answered"]
       ELSE /\ relay.pc = "done"
            /\ caller' = [caller EXCEPT ![t] = "disconnected"]
            /\ UNCHANGED out_q
    /\ UNCHANGED <<in_q, relay, stream, frames, atAgent, histVars, fileVars, sockVars, pathVars, addrVars, installVars, lockVars, policyVars, operatorVars>>

(* select! branch in_rx.recv(): the message is written to the transport;   *)
(* a failed write ends the task. The mutant takes the newest message of    *)
(* the channel instead of the oldest.                                      *)
RelayClientMessage_TakesNewest ==
    /\ relay.pc = "select"
    /\ in_q # <<>>
    /\ in_q' = SubSeq(in_q, 1, Len(in_q) - 1)
    /\ \E ok \in BOOLEAN :
        IF ok
        THEN /\ atAgent' = (IF stream = "up" THEN Append(atAgent, in_q[Len(in_q)]) ELSE atAgent)
             /\ written' = Append(written, in_q[Len(in_q)])
             /\ UNCHANGED <<relay, stream>>
        ELSE /\ relay' = Stopped
             /\ stream' = "ended"
             /\ UNCHANGED <<atAgent, written>>
    /\ UNCHANGED <<accepted, decoded, delivered, logged>>
    /\ UNCHANGED <<out_q, frames, caller, fileVars, sockVars, pathVars, addrVars, installVars, lockVars, policyVars, operatorVars>>

RelayClientMessage ==
    /\ relay.pc = "select"
    /\ in_q # <<>>
    /\ in_q' = Tail(in_q)
    /\ \E ok \in BOOLEAN :
        IF ok
        THEN /\ atAgent' = (IF stream = "up" THEN Append(atAgent, Head(in_q)) ELSE atAgent)
             /\ written' = Append(written, Head(in_q))
             /\ UNCHANGED <<relay, stream>>
        ELSE /\ relay' = Stopped
             /\ stream' = "ended"
             /\ UNCHANGED <<atAgent, written>>
    /\ UNCHANGED <<accepted, decoded, delivered, logged>>
    /\ UNCHANGED <<out_q, frames, caller, fileVars, sockVars, pathVars, addrVars, installVars, lockVars, policyVars, operatorVars>>

(* select! branch codec.next(): a log message is logged, any other message *)
(* goes to out_tx.send, a decode error or the end of the stream ends the   *)
(* task. The mutant polls again after a decode error or the end of the     *)
(* stream.                                                                 *)
RelayDaemonMessage_KeepsPolling ==
    /\ relay.pc = "select"
    /\ frames # <<>>
    /\ frames' = Tail(frames)
    /\ relay' = (IF Head(frames).kind = "Response"
                 THEN [pc |-> "out_tx_send", msg |-> Head(frames)]
                 ELSE relay)
    /\ decoded' = (IF IsMessage(Head(frames)) THEN Append(decoded, Head(frames)) ELSE decoded)
    /\ logged' = (IF Head(frames).kind = "LogMessage" THEN logged + 1 ELSE logged)
    /\ UNCHANGED <<accepted, written, delivered>>
    /\ UNCHANGED <<in_q, out_q, stream, atAgent, caller, fileVars, sockVars, pathVars, addrVars, installVars, lockVars, policyVars, operatorVars>>

(* The mutant hands a log message to out_tx.send as well.                  *)
RelayDaemonMessage_ForwardsLogs ==
    /\ relay.pc = "select"
    /\ IF frames # <<>>
       THEN /\ frames' = Tail(frames)
            /\ relay' = (IF IsMessage(Head(frames))
                         THEN [pc |-> "out_tx_send", msg |-> Head(frames)]
                         ELSE Stopped)
            /\ decoded' = (IF IsMessage(Head(frames)) THEN Append(decoded, Head(frames))
                           ELSE decoded)
            /\ logged' = (IF Head(frames).kind = "LogMessage" THEN logged + 1 ELSE logged)
       ELSE /\ stream = "ended"
            /\ relay' = Stopped
            /\ UNCHANGED <<frames, decoded, logged>>
    /\ UNCHANGED <<accepted, written, delivered>>
    /\ UNCHANGED <<in_q, out_q, stream, atAgent, caller, fileVars, sockVars, pathVars, addrVars, installVars, lockVars, policyVars, operatorVars>>

RelayDaemonMessage ==
    /\ relay.pc = "select"
    /\ IF frames # <<>>
       THEN /\ frames' = Tail(frames)
            /\ relay' = (IF Head(frames).kind = "LogMessage" THEN relay
                         ELSE IF Head(frames).kind = "Response"
                         THEN [pc |-> "out_tx_send", msg |-> Head(frames)]
                         ELSE Stopped)
            /\ decoded' = (IF IsMessage(Head(frames)) THEN Append(decoded, Head(frames))
                           ELSE decoded)
            /\ logged' = (IF Head(frames).kind = "LogMessage" THEN logged + 1 ELSE logged)
       ELSE /\ stream = "ended"
            /\ relay' = Stopped
            /\ UNCHANGED <<frames, decoded, logged>>
    /\ UNCHANGED <<accepted, written, delivered>>
    /\ UNCHANGED <<in_q, out_q, stream, atAgent, caller, fileVars, sockVars, pathVars, addrVars, installVars, lockVars, policyVars, operatorVars>>

(* out_tx.send(msg).await completes when the channel has room.            *)
(* The mutant delivers only when no request waits in the other channel.    *)
RelayDeliver_WhenNoRequestWaits ==
    /\ relay.pc = "out_tx_send"
    /\ in_q = <<>>
    /\ Len(out_q) < ChanCap
    /\ out_q' = Append(out_q, relay.msg)
    /\ delivered' = Append(delivered, relay.msg)
    /\ relay' = Selecting
    /\ UNCHANGED <<in_q, stream, frames, atAgent, caller, accepted, written, decoded, logged,
                   fileVars, sockVars, pathVars, addrVars, installVars, lockVars, policyVars,
                   operatorVars>>

RelayDeliver ==
    /\ relay.pc = "out_tx_send"
    /\ Len(out_q) < ChanCap
    /\ out_q' = Append(out_q, relay.msg)
    /\ delivered' = Append(delivered, relay.msg)
    /\ relay' = Selecting
    /\ UNCHANGED <<accepted, written, decoded, logged>>
    /\ UNCHANGED <<in_q, stream, frames, atAgent, caller, fileVars, sockVars, pathVars, addrVars, installVars, lockVars, policyVars, operatorVars>>

(* The agent answers a request, logs, or writes bytes that do not decode;  *)
(* the peer closes the transport                                           *)
AgentRespond ==
    /\ stream = "up"
    /\ atAgent # <<>>
    /\ Len(frames) < MaxFrames
    /\ frames' = Append(frames, Response(Head(atAgent)))
    /\ atAgent' = Tail(atAgent)
    /\ UNCHANGED <<in_q, out_q, relay, stream, caller, histVars, fileVars, sockVars, pathVars, addrVars, installVars, lockVars, policyVars, operatorVars>>

AgentLog ==
    /\ stream = "up"
    /\ Len(frames) < MaxFrames
    /\ Logs(decoded) + Logs(frames) < MaxLogs
    /\ frames' = Append(frames, LogMessage)
    /\ UNCHANGED <<in_q, out_q, relay, stream, atAgent, caller, histVars, fileVars, sockVars, pathVars, addrVars, installVars, lockVars, policyVars, operatorVars>>

BadFrameArrives ==
    /\ stream = "up"
    /\ Len(frames) < MaxFrames
    /\ frames' = Append(frames, BadFrame)
    /\ stream' = "ended"
    /\ UNCHANGED <<in_q, out_q, relay, atAgent, caller, histVars, fileVars, sockVars, pathVars, addrVars, installVars, lockVars, policyVars, operatorVars>>

PeerCloses ==
    /\ stream = "up"
    /\ stream' = "ended"
    /\ UNCHANGED <<in_q, out_q, relay, frames, atAgent, caller, histVars, fileVars, sockVars, pathVars, addrVars, installVars, lockVars, policyVars, operatorVars>>

RelayNext ==
    \/ \E t \in Callers : Issue(t)
    \/ \E t \in Callers : Send(t)
    \/ \E t \in Callers : Receive(t)
    \/ RelayClientMessage
    \/ RelayDaemonMessage
    \/ RelayDeliver
    \/ AgentRespond
    \/ AgentLog
    \/ BadFrameArrives
    \/ PeerCloses

----------------------------------------------------------------------------
(* The file layer as a state machine: one action per hook call *)

FileInit ==
    /\ osOpen = {0}
    /\ OPEN_FILES = [fd \in Fd |-> NoArc]
    /\ arcFd = [a \in ArcId |-> 0]
    /\ returned = {}
    /\ closeReqs = [r \in RemoteFd |-> 0]
    /\ openedAs = [fd \in Fd |-> 0]
    /\ lastOp = NoOp
    /\ OPEN_DIRS = [dir \in Fd |-> NoDir]
    /\ SOCKETS = {}
    /\ lastHook = NoHook

(* The inputs a call of open reads: the oracle is asked about an absolute  *)
(* path only, the peer answers only when asked, FN_OPEN runs only after    *)
(* the peer opened the file. An input that is not read is held at one value. *)
OpenReads(path, decision, resp, local_file_fd) ==
    /\ (path # Success("absolute") => decision = "bypass")
    /\ (decision = "bypass" => ~resp.ok)
    /\ (~resp.ok => local_file_fd = 0 - 1)

(* The inputs a call of openat reads *)
OpenAtReads(fd, path, decision, resp, local_file_fd) ==
    IF path = Success("relative") /\ fd # AT_FDCWD
    THEN /\ decision = "bypass"
         /\ (OPEN_FILES[fd] = NoArc => ~resp.ok)
         /\ (~resp.ok => local_file_fd = 0 - 1)
    ELSE /\ fd = AT_FDCWD
         /\ OpenReads(path, decision, resp, local_file_fd)

(* The remote fd the peer returned in a call: the call sent an open and the peer opened *)
Opened(o, resp) ==
    IF /\ o.sent # <<>>
       /\ o.sent[1].type \in {"OpenFileRequest", "OpenRelativeFileRequest",
                              "FdOpenDirRequest"}
       /\ resp.ok
    THEN resp.fd ELSE 0

(* The origin of every descriptor after an open that returned ret *)
OriginAfterOpen(ret, resp) ==
    IF ret.kind = "Success" THEN [openedAs EXCEPT ![ret.val] = resp.fd] ELSE openedAs

(* The origin of every descriptor after the native call closed or replaced fd *)
OriginWithout(fd, result) ==
    IF result = 0 - 1 THEN openedAs ELSE [openedAs EXCEPT ![fd] = 0]

Open ==
    \E path \in PathInputs, decision \in Decisions, resp \in OpenResponses,
       local_file_fd \in FreshFds :
        /\ OpenReads(path, decision, resp, local_file_fd)
        /\ LET o == open(path, decision, resp, local_file_fd)
           IN Finish("open", <<path, decision>>, o, Opened(o, resp),
                     OriginAfterOpen(o.ret, resp))

OpenAt ==
    \E fd \in Fd \cup {AT_FDCWD}, path \in PathInputs, decision \in Decisions,
       resp \in OpenResponses, local_file_fd \in FreshFds :
        /\ OpenAtReads(fd, path, decision, resp, local_file_fd)
        /\ LET o == openat(fd, path, decision, resp, local_file_fd)
           IN Finish("openat", <<fd, path, decision>>, o, Opened(o, resp),
                     OriginAfterOpen(o.ret, resp))

Read ==
    \E local_fd \in Fd, read_amount \in ReadAmounts, ok \in BOOLEAN :
        Finish("read", <<local_fd, read_amount>>, read(local_fd, read_amount, ok),
               0, openedAs)

Dup ==
    \E fd \in Fd : \E dup_result \in NativeDupResults(fd) :
        Finish("dup", <<fd>>, dup_detour(fd, dup_result, TRUE), 0, openedAs)

Dup2 ==
    \E oldfd \in Fd, newfd \in Fd : \E dup2_result \in NativeDup2Results(oldfd, newfd) :
        Finish("dup2", <<oldfd, newfd>>, dup2_detour(oldfd, newfd, dup2_result, TRUE), 0,
               IF oldfd = newfd THEN openedAs ELSE OriginWithout(newfd, dup2_result))

Dup3 ==
    \E oldfd \in Fd, newfd \in Fd : \E dup3_result \in NativeDup3Results(oldfd, newfd) :
        Finish("dup3", <<oldfd, newfd>>, dup3_detour(oldfd, newfd, dup3_result, TRUE), 0,
               OriginWithout(newfd, dup3_result))

(* The duplication hooks in a process where a thread has panicked holding  *)
(* the lock of the socket table: dup returns the error of the lock         *)
DupPoisoned ==
    \E fd \in Fd : \E dup_result \in NativeDupResults(fd) :
        Finish("dup", <<fd>>, dup_detour(fd, dup_result, FALSE), 0, openedAs)

Dup2Poisoned ==
    \E oldfd \in Fd, newfd \in Fd : \E dup2_result \in NativeDup2Results(oldfd, newfd) :
        Finish("dup2", <<oldfd, newfd>>, dup2_detour(oldfd, newfd, dup2_result, FALSE), 0,
               IF oldfd = newfd THEN openedAs ELSE OriginWithout(newfd, dup2_result))

Dup3Poisoned ==
    \E oldfd \in Fd, newfd \in Fd : \E dup3_result \in NativeDup3Results(oldfd, newfd) :
        Finish("dup3", <<oldfd, newfd>>, dup3_detour(oldfd, newfd, dup3_result, FALSE), 0,
               OriginWithout(newfd, dup3_result))

Close ==
    \E fd \in Fd :
        LET close_result == IF fd \in osOpen THEN 0 ELSE 0 - 1
        IN Finish("close", <<fd>>, close_detour(fd, close_result), 0,
                  [openedAs EXCEPT ![fd] = 0])

Accept ==
    \E sockfd \in Fd, ok \in BOOLEAN : \E accept_result \in NativeAcceptResults(sockfd) :
        /\ (sockfd \notin SOCKETS \/ accept_result = 0 - 1) => ok
        /\ Finish("accept", <<sockfd>>, accept_detour(sockfd, accept_result, ok), 0,
                  openedAs)

Accept4 ==
    \E sockfd \in Fd, ok \in BOOLEAN : \E accept_result \in NativeAcceptResults(sockfd) :
        /\ (sockfd \notin SOCKETS \/ accept_result = 0 - 1) => ok
        /\ Finish("accept4", <<sockfd, 0>>, accept4_detour(sockfd, 0, accept_result, ok),
                  0, openedAs)

(* guard: whether DetourGuard::new() gave a guard, recorded after the arguments *)
Fcntl ==
    \E fd \in Fd, cmd \in FcntlCommands, guard \in BOOLEAN :
        \E fcntl_result \in NativeFcntlResults(fd, cmd) :
            Finish("fcntl", <<fd, cmd, guard>>, fcntl_detour(fd, cmd, fcntl_result, guard), 0,
                   openedAs)

----------------------------------------------------------------------------
(* file/ops.rs: the operations on an open descriptor.  ok is the peer's    *)
(* answer to the request, when one is sent.                                *)

SEEK_SET == 0
SEEK_CUR == 1
SEEK_END == 2

(* What a call does with the peer's answer *)
Answered(ok, response) == IF ok THEN Success(response) ELSE Error("ResponseError")

(* pread: the request carries buffer_size as the caller gave it *)
pread(local_fd, buffer_size, offset, ok) ==
    LET remote_fd == get_remote_fd(local_fd) IN
    IF remote_fd.kind # "Success" THEN NoChange(remote_fd, <<>>, <<>>)
    ELSE NoChange(Answered(ok, "ReadFileResponse"),
                  <<Request("ReadLimitedFileRequest", remote_fd.val, buffer_size)>>, <<>>)

(* pwrite: buffer is the number of bytes in the caller's buffer *)
pwrite(local_fd, buffer, offset, ok) ==
    LET remote_fd == get_remote_fd(local_fd) IN
    IF remote_fd.kind # "Success" THEN NoChange(remote_fd, <<>>, <<>>)
    ELSE NoChange(Answered(ok, "WriteFileResponse"),
                  <<Request("WriteLimitedFileRequest", remote_fd.val, buffer)>>, <<>>)

(* lseek: a whence that is none of the three falls back to the native call *)
lseek(local_fd, offset, whence, ok) ==
    LET remote_fd == get_remote_fd(local_fd) IN
    IF remote_fd.kind # "Success" THEN NoChange(remote_fd, <<>>, <<>>)
    ELSE IF whence \notin {SEEK_SET, SEEK_CUR, SEEK_END}
    THEN NoChange(Bypass("CStrConversion"), <<>>, <<>>)
    ELSE NoChange(Answered(ok, "SeekFileResponse"),
                  <<Request("SeekFileRequest", remote_fd.val, whence)>>, <<>>)

(* write: write_bytes is None when the caller's buffer is null *)
write(local_fd, write_bytes, ok) ==
    LET remote_fd == get_remote_fd(local_fd) IN
    IF remote_fd.kind # "Success" THEN NoChange(remote_fd, <<>>, <<>>)
    ELSE IF ~write_bytes.some THEN NoChange(Bypass("EmptyBuffer"), <<>>, <<>>)
    ELSE NoChange(Answered(ok, "WriteFileResponse"),
                  <<Request("WriteFileRequest", remote_fd.val, write_bytes.val)>>, <<>>)

(* fsync: nothing is flushed remotely, a managed descriptor returns 0 *)
fsync(fd) ==
    LET remote_fd == get_remote_fd(fd) IN
    IF remote_fd.kind # "Success" THEN NoChange(remote_fd, <<>>, <<>>)
    ELSE NoChange(Success(0), <<>>, <<>>)

(* fstat: xstat(None, Some(fd), true) *)
fstat(fd, ok) ==
    LET x == xstat(None, Some(fd), TRUE, [i \in 1..2 |-> "redirect"], ok,
                   get_remote_fd(fd))
        sent == [i \in 1..Len(x.sent) |-> Request(x.sent[i].type, x.sent[i].fd.val, 0)]
        ret == IF x.ret = "Success" THEN Success("XstatResponse")
               ELSE IF x.ret = "Bypass" THEN get_remote_fd(fd)
               ELSE Error("ResponseError")
        o == NoChange(ret, sent, <<>>)
    IN IF x.asked = <<>> THEN o ELSE Consulted(o)

xstatfs(fd, ok) ==
    LET remote_fd == get_remote_fd(fd) IN
    IF remote_fd.kind # "Success" THEN NoChange(remote_fd, <<>>, <<>>)
    ELSE NoChange(Answered(ok, "XstatFsResponse"),
                  <<Request("XstatFsRequest", remote_fd.val, 0)>>, <<>>)

getdents64_LocalFd(fd, buffer_size, ok) ==
    LET remote_fd == get_remote_fd(fd) IN
    IF remote_fd.kind # "Success" THEN NoChange(remote_fd, <<>>, <<>>)
    ELSE NoChange(Answered(ok, "GetDEnts64Response"),
                  <<Request("GetDEnts64Request", fd, buffer_size)>>, <<>>)

getdents64(fd, buffer_size, ok) ==
    LET remote_fd == get_remote_fd(fd) IN
    IF remote_fd.kind # "Success" THEN NoChange(remote_fd, <<>>, <<>>)
    ELSE NoChange(Answered(ok, "GetDEnts64Response"),
                  <<Request("GetDEnts64Request", remote_fd.val, buffer_size)>>, <<>>)

(* OPEN_DIRS.insert(local_dir_fd, remote_dir_fd, fd) *)
DirStream(remote_dir_fd, fd) ==
    [fd |-> fd, present |-> TRUE, remote_dir_fd |-> remote_dir_fd]

InsertDir_OtherFd(local_dir_fd, remote_dir_fd, fd) ==
    [OPEN_DIRS EXCEPT ![local_dir_fd] = DirStream(remote_dir_fd, local_dir_fd)]

InsertDir(local_dir_fd, remote_dir_fd, fd) ==
    [OPEN_DIRS EXCEPT ![local_dir_fd] = DirStream(remote_dir_fd, fd)]

(* fdopendir: resp is the peer's OpenDirResponse, local_dir_fd what FN_OPEN *)
(* gave for the placeholder; the entry of fd stays in OPEN_FILES           *)
fdopendir(fd, resp, local_dir_fd) ==
    LET remote_file_fd == get_remote_fd(fd) IN
    IF remote_file_fd.kind # "Success" THEN NoChange(remote_file_fd, <<>>, <<>>)
    ELSE IF ~resp.ok
    THEN NoChange(Error("ResponseError"),
                  <<Request("FdOpenDirRequest", remote_file_fd.val, 0)>>, <<>>)
    ELSE LET local == create_local_fake_file(resp.fd, local_dir_fd)
             sent == <<Request("FdOpenDirRequest", remote_file_fd.val, 0)>> \o local.sent
             native == <<Native("FN_OPEN", local_dir_fd)>>
         IN IF local.ret.kind # "Success"
            THEN NoChange(local.ret, sent, native)
            ELSE [Outcome(local.ret, sent, native, OPEN_FILES, arcFd,
                          osOpen \cup {local_dir_fd})
                  EXCEPT !.dirs = InsertDir(local_dir_fd, resp.fd, fd)]

(* What the peer may answer to an fdopendir *)
DirResponses == OpenResponses

(* The sizes, offsets and whence values the callers pass *)
PreadSizes == {1, MAX_READ_SIZE + 1}
WriteSizes == {1}
WhenceInputs == {SEEK_SET, SEEK_END, 3}
WriteInputs == {None} \cup {[val |-> n, some |-> TRUE] : n \in WriteSizes}

(* An input the call never reads is held at one value *)
Unread(local_fd, ok) == get_remote_fd(local_fd).kind # "Success" => ok

Pread ==
    \E local_fd \in Fd, buffer_size \in PreadSizes, ok \in BOOLEAN :
        /\ Unread(local_fd, ok)
        /\ Finish("pread", <<local_fd, buffer_size, 0>>,
                  pread(local_fd, buffer_size, 0, ok), 0, openedAs)

Pwrite ==
    \E local_fd \in Fd, buffer \in WriteSizes, ok \in BOOLEAN :
        /\ Unread(local_fd, ok)
        /\ Finish("pwrite", <<local_fd, buffer, 0>>, pwrite(local_fd, buffer, 0, ok),
                  0, openedAs)

Lseek ==
    \E local_fd \in Fd, whence \in WhenceInputs, ok \in BOOLEAN :
        /\ Unread(local_fd, ok)
        /\ whence \notin {SEEK_SET, SEEK_CUR, SEEK_END} => ok
        /\ Finish("lseek", <<local_fd, 0, whence>>, lseek(local_fd, 0, whence, ok),
                  0, openedAs)

Write ==
    \E local_fd \in Fd, write_bytes \in WriteInputs, ok \in BOOLEAN :
        /\ Unread(local_fd, ok)
        /\ ~write_bytes.some => ok
        /\ Finish("write", <<local_fd, write_bytes>>, write(local_fd, write_bytes, ok),
                  0, openedAs)

Fsync ==
    \E fd \in Fd : Finish("fsync", <<fd>>, fsync(fd), 0, openedAs)

Fstat ==
    \E fd \in Fd, ok \in BOOLEAN :
        /\ Unread(fd, ok)
        /\ Finish("fstat", <<fd>>, fstat(fd, ok), 0, openedAs)

Xstatfs ==
    \E fd \in Fd, ok \in BOOLEAN :
        /\ Unread(fd, ok)
        /\ Finish("xstatfs", <<fd>>, xstatfs(fd, ok), 0, openedAs)

Getdents64 ==
    \E fd \in Fd, ok \in BOOLEAN :
        /\ Unread(fd, ok)
        /\ Finish("getdents64", <<fd, 4096>>, getdents64(fd, 4096, ok), 0, openedAs)

(* No stream is ever closed here, so their number is capped *)
FdOpenDir ==
    \E fd \in Fd, resp \in DirResponses, local_dir_fd \in FreshFds :
        /\ Cardinality({dir \in Fd : OPEN_DIRS[dir].present}) < MaxDirs
        /\ Unread(fd, ~resp.ok)
        /\ ~resp.ok => local_dir_fd = 0 - 1
        /\ LET o == fdopendir(fd, resp, local_dir_fd)
           IN Finish("fdopendir", <<fd>>, o, Opened(o, resp), openedAs)

(* Every operation on an open descriptor, on descriptors opened before it *)
(* and on descriptors that never were                                    *)
FdNext ==
    \/ Open \/ Read \/ Pread \/ Write \/ Pwrite \/ Lseek \/ Fsync
    \/ Fstat \/ Xstatfs \/ Getdents64 \/ FdOpenDir

(* Directory streams of descriptors that are opened and closed *)
DirNext == Open \/ Close \/ FdOpenDir

(* operator/src/client.rs: the connection wrapper between the client's     *)
(* channels and the websocket connection to the operator                   *)

(* The messages the client sends and the frames the operator writes in one *)
(* run                                                                     *)
MaxClientMsgs == 2
MaxOperatorFrames == 2

(* semver::Version as <<major, minor, patch>>: Ord compares the fields in  *)
(* order, as numbers                                                       *)
VersionLess(a, b) ==
    \/ a[1] < b[1]
    \/ a[1] = b[1] /\ a[2] < b[2]
    \/ a[1] = b[1] /\ a[2] = b[2] /\ a[3] < b[3]

NoVersion == <<0, 0, 0>>

(* "1.2.1".parse() *)
StaticVersion == <<1, 2, 1>>

(* The versions a client asks for, and the one the operator announces *)
RequestedVersions == {<<1, 9, 0>>, <<2, 0, 0>>}
OperatorVersions == {<<1, 10, 0>>}

VersionMin_Requested(operator_protocol_version, version) == version

(* operator_protocol_version.min(&version) *)
VersionMin(operator_protocol_version, version) ==
    IF VersionLess(version, operator_protocol_version)
        THEN version
        ELSE operator_protocol_version

SwitchProtocolVersion(version) == [type |-> "SwitchProtocolVersion", version |-> version]
SwitchProtocolVersionResponse(version) ==
    [type |-> "SwitchProtocolVersionResponse", version |-> version]
OtherClientMessage == [type |-> "Ping", version |-> NoVersion]
OtherDaemonMessage == [type |-> "Pong", version |-> NoVersion]
NoMsg == [type |-> "none", version |-> NoVersion]

ClientMessages ==
    {SwitchProtocolVersion(version) : version \in RequestedVersions} \cup {OtherClientMessage}

(* tungstenite::Message, and the items of the connection's stream: a       *)
(* binary frame that decodes, one that does not, a frame of another kind,  *)
(* and Err(TungsteniteError)                                               *)
Binary(msg) == [kind |-> "Binary", msg |-> msg]
CloseFrame == [kind |-> "Close", msg |-> NoMsg]
Undecodable == [kind |-> "Binary", msg |-> [type |-> "garbage", version |-> NoVersion]]
TextFrame == [kind |-> "Text", msg |-> NoMsg]
TransportError == [kind |-> "Err", msg |-> NoMsg]

OperatorFrames == {Binary(OtherDaemonMessage), Undecodable, TextFrame, TransportError}

(* What one turn of the loop did *)
Turn(event, msg, forwarded, answered) ==
    [msg |-> msg, event |-> event, forwarded |-> forwarded, answered |-> answered]

NoTurn == Turn("none", NoMsg, <<>>, <<>>)

(* The results of start that end the loop through a ? *)
Failures ==
    {"EncodeError", "DecodeError", "WsError", "InvalidMessage", "DaemonReceiverDropped"}

(* The loop is left by a break (the result is Ok) or by a ? *)
Stops_IgnoresInvalidMessage(event) ==
    event \in ({"ClientDropped", "StreamEnded"} \cup Failures) \ {"InvalidMessage"}

Stops(event) == event \in {"ClientDropped", "StreamEnded"} \cup Failures

(* let _ = self.connection.send(Message::Close(None)).await, after a break *)
Closing(event) == IF event \in {"ClientDropped", "StreamEnded"} THEN <<CloseFrame>> ELSE <<>>

(* The wrapper before it is spawned, and after wrap *)
NoWrapper ==
    [pc |-> "none", last |-> NoTurn, result |-> "none", protocol_version |-> None,
     requested |-> NoVersion]

Spawned(protocol_version) ==
    [pc |-> "running", last |-> NoTurn, result |-> "none",
     protocol_version |-> protocol_version, requested |-> NoVersion]

Channel == [sent |-> 0, open |-> TRUE, queue |-> <<>>]
Connection == [written |-> 0, sent |-> <<>>, incoming |-> <<>>, ended |-> FALSE]

NoSession == [op |-> "none", result |-> "none", on_concurrent_steal |-> "none",
              target |-> "none", operator |-> "none", locks |-> "none", calls |-> <<>>]

OperatorIdle ==
    /\ wrapper = NoWrapper
    /\ client_rx = Channel
    /\ daemon_tx = Channel
    /\ connection = Connection
    /\ session = NoSession

(* ConnectionWrapper::wrap *)
WrapperInit ==
    /\ wrapper \in {Spawned(None)} \cup {Spawned(Some(v)) : v \in OperatorVersions}
    /\ client_rx = Channel
    /\ daemon_tx = Channel
    /\ connection = Connection
    /\ session = NoSession

(* One turn of the loop in start: what it leaves in the wrapper, on the    *)
(* connection and in the channel to the client                             *)
TurnDone(turn, requested, incoming) ==
    /\ wrapper' = [wrapper EXCEPT
                      !.requested = requested,
                      !.pc = IF Stops(turn.event) THEN "stopped" ELSE "running",
                      !.result = IF ~Stops(turn.event) THEN "none"
                                 ELSE IF turn.event \in Failures THEN turn.event ELSE "Ok",
                      !.last = turn]
    /\ connection' = [connection EXCEPT
                         !.incoming = incoming,
                         !.sent = connection.sent \o turn.forwarded \o Closing(turn.event)]
    /\ daemon_tx' = [daemon_tx EXCEPT !.queue = daemon_tx.queue \o turn.answered]

(* handle_client_message: encode, then connection.send *)
handle_client_message(client_message, outcome) ==
    IF outcome = "Ok"
        THEN Turn("forwarded", client_message, <<Binary(client_message)>>, <<>>)
        ELSE Turn(outcome, client_message, <<>>, <<>>)

(* daemon_tx.send(..).await.map_err(|_| DaemonReceiverDropped) *)
daemon_tx_send(event, msg, daemon_message) ==
    IF daemon_tx.open
        THEN Turn(event, msg, <<>>, <<daemon_message>>)
        ELSE Turn("DaemonReceiverDropped", msg, <<>>, <<>>)

(* client_message = self.client_rx.recv() *)
start_client(client_message, outcome) ==
    IF client_message.type = "SwitchProtocolVersion"
        THEN IF wrapper.protocol_version.some
                 THEN handle_client_message(
                          SwitchProtocolVersion(
                              VersionMin(wrapper.protocol_version.val, client_message.version)),
                          outcome)
                 ELSE daemon_tx_send("answered", client_message,
                                     SwitchProtocolVersionResponse(StaticVersion))
        ELSE handle_client_message(client_message, outcome)

(* handle_daemon_message *)
handle_daemon_message(daemon_message) ==
    IF daemon_message.kind = "Err" THEN Turn("WsError", NoMsg, <<>>, <<>>)
    ELSE IF daemon_message.kind # "Binary" THEN Turn("InvalidMessage", NoMsg, <<>>, <<>>)
    ELSE IF daemon_message.msg.type = "garbage" THEN Turn("DecodeError", NoMsg, <<>>, <<>>)
    ELSE daemon_tx_send("delivered", daemon_message.msg, daemon_message.msg)

(* The client sends a message: tx.send *)
ClientSend ==
    /\ wrapper.pc # "none"
    /\ client_rx.open
    /\ client_rx.sent < MaxClientMsgs
    /\ \E client_message \in ClientMessages :
          client_rx' = [client_rx EXCEPT !.queue = Append(client_rx.queue, client_message),
                                         !.sent = client_rx.sent + 1]
    /\ UNCHANGED <<wrapper, daemon_tx, connection, session, fileVars, pathVars, addrVars,
                   relayVars, sockVars, installVars, lockVars, policyVars>>

(* The client drops its sender *)
ClientDropsSender ==
    /\ wrapper.pc # "none"
    /\ client_rx.open
    /\ client_rx' = [client_rx EXCEPT !.open = FALSE]
    /\ UNCHANGED <<wrapper, daemon_tx, connection, session, fileVars, pathVars, addrVars,
                   relayVars, sockVars, installVars, lockVars, policyVars>>

(* The client drops its receiver *)
ClientDropsReceiver ==
    /\ wrapper.pc # "none"
    /\ daemon_tx.open
    /\ daemon_tx' = [daemon_tx EXCEPT !.open = FALSE]
    /\ UNCHANGED <<wrapper, client_rx, connection, session, fileVars, pathVars, addrVars,
                   relayVars, sockVars, installVars, lockVars, policyVars>>

(* The operator writes a frame, or the transport fails *)
OperatorWrites ==
    /\ wrapper.pc # "none"
    /\ ~connection.ended
    /\ connection.written < MaxOperatorFrames
    /\ \E frame \in OperatorFrames :
          connection' = [connection EXCEPT !.incoming = Append(connection.incoming, frame),
                                           !.written = connection.written + 1]
    /\ UNCHANGED <<wrapper, client_rx, daemon_tx, session, fileVars, pathVars, addrVars,
                   relayVars, sockVars, installVars, lockVars, policyVars>>

(* The operator ends the stream *)
OperatorEnds ==
    /\ wrapper.pc # "none"
    /\ ~connection.ended
    /\ connection' = [connection EXCEPT !.ended = TRUE]
    /\ UNCHANGED <<wrapper, client_rx, daemon_tx, session, fileVars, pathVars, addrVars,
                   relayVars, sockVars, installVars, lockVars, policyVars>>

(* start, the branch client_message = self.client_rx.recv(): a message, or *)
(* None once the sender is dropped and the channel is empty                *)
WrapperClient ==
    /\ wrapper.pc = "running"
    /\ IF client_rx.queue # <<>>
          THEN /\ \E outcome \in {"Ok", "EncodeError", "WsError"} :
                     TurnDone(start_client(Head(client_rx.queue), outcome),
                              Head(client_rx.queue).version, connection.incoming)
               /\ client_rx' = [client_rx EXCEPT !.queue = Tail(client_rx.queue)]
          ELSE /\ ~client_rx.open
               /\ TurnDone(Turn("ClientDropped", NoMsg, <<>>, <<>>), NoVersion, connection.incoming)
               /\ UNCHANGED client_rx
    /\ UNCHANGED <<session, fileVars, pathVars, addrVars,
                   relayVars, sockVars, installVars, lockVars, policyVars>>

(* start, the branch daemon_message = self.connection.next(): an item of   *)
(* the stream, or None once it has ended                                   *)
WrapperDaemon ==
    /\ wrapper.pc = "running"
    /\ IF connection.incoming # <<>>
          THEN TurnDone(handle_daemon_message(Head(connection.incoming)), NoVersion,
                        Tail(connection.incoming))
          ELSE /\ connection.ended
               /\ TurnDone(Turn("StreamEnded", NoMsg, <<>>, <<>>), NoVersion, connection.incoming)
    /\ UNCHANGED <<client_rx, session, fileVars, pathVars, addrVars,
                   relayVars, sockVars, installVars, lockVars, policyVars>>

WrapperNext ==
    \/ ClientSend \/ ClientDropsSender \/ ClientDropsReceiver
    \/ OperatorWrites \/ OperatorEnds
    \/ WrapperClient \/ WrapperDaemon

----------------------------------------------------------------------------
(* operator/src/client.rs: OperatorApi, creating and connecting a session  *)

(* The result of a call with the requests it made, in order *)
Called(calls, result) == [result |-> result, calls |-> calls]

(* a ; b: b runs when a has not returned *)
Then(a, b) == IF a.result = "continue" THEN Called(a.calls \o b.calls, b.result) ELSE a

(* OperatorApi::new: create_kube_api(..).await? *)
new(kube) ==
    IF kube = "Ok" THEN Called(<<"create_kube_api">>, "continue")
    ELSE Called(<<"create_kube_api">>, "KubeApiError")

fetch_operator_NotFoundIsError(response) ==
    IF response = "Found" THEN Called(<<"get operator">>, "continue")
    ELSE Called(<<"get operator">>, "KubeApiError")

(* fetch_operator, and the let-else of create_session on its value *)
fetch_operator(response) ==
    IF response = "Found" THEN Called(<<"get operator">>, "continue")
    ELSE IF response = "NotFound" THEN Called(<<"get operator">>, "None")
    ELSE Called(<<"get operator">>, "KubeApiError")

(* check_config *)
check_config(copy_target, copy_target_enabled) ==
    IF copy_target /\ ~copy_target_enabled
        THEN Called(<<>>, "UnsupportedFeature")
        ELSE Called(<<>>, "continue")

(* The client certificate is fetched when the license has a fingerprint;   *)
(* a failure is logged and the session goes on without one                 *)
get_client_certificate(fingerprint) ==
    IF fingerprint THEN Called(<<"get credentials">>, "continue") ELSE Called(<<>>, "continue")

(* Version::parse(&operator.spec.operator_version).expect(..) *)
parse_operator_version(parses) ==
    IF parses THEN Called(<<>>, "continue") ELSE Called(<<>>, "panic")

(* fetch_target().await?.ok_or(InvalidTarget)? *)
fetch_target(response) ==
    IF response = "Found" THEN Called(<<"get target">>, "continue")
    ELSE IF response = "NotFound" THEN Called(<<"get target">>, "InvalidTarget")
    ELSE Called(<<"get target">>, "KubeApiError")

(* copy_target, when config.feature.copy_target *)
copy_target(copy_target_feature, response) ==
    IF ~copy_target_feature THEN Called(<<>>, "continue")
    ELSE IF response = "InvalidTarget" THEN Called(<<>>, "InvalidTarget")
    ELSE IF response = "Ok" THEN Called(<<"create copy target">>, "continue")
    ELSE Called(<<"create copy target">>, "KubeApiError")

check_no_port_locks_Lenient(locks) == Called(<<"get port-locks">>, "continue")

(* check_no_port_locks: the lookup fails, or returns the target with no    *)
(* list, an empty list or a list of locks                                  *)
check_no_port_locks(locks) ==
    IF locks = "Err" THEN Called(<<"get port-locks">>, "continue")
    ELSE IF locks \in {"NoList", "Empty"} THEN Called(<<"get port-locks">>, "continue")
    ELSE Called(<<"get port-locks">>, "ConcurrentStealAbort")

(* connect_target *)
connect_target(on_concurrent_steal, target, locks, connect) ==
    Then(IF on_concurrent_steal = "Abort" /\ target = "Raw"
             THEN check_no_port_locks(locks)
             ELSE Called(<<>>, "continue"),
         IF connect = "HttpError" THEN Called(<<>>, "HttpError")
         ELSE IF connect = "Ok" THEN Called(<<"connect">>, "Connection")
         ELSE Called(<<"connect">>, "KubeApiError"))

(* create_session *)
create_session(in) ==
    Then(new(in.kube),
    Then(fetch_operator(in.operator),
    Then(check_config(in.copy_target, in.copy_target_enabled),
    Then(get_client_certificate(in.fingerprint),
    Then(parse_operator_version(in.version_parses),
    Then(fetch_target(in.target),
    Then(copy_target(in.copy_target, in.copy),
         connect_target(in.on_concurrent_steal,
                        IF in.copy_target THEN "Copied" ELSE "Raw",
                        in.locks, in.connect))))))))

(* connect *)
connect(in) ==
    Then(new(in.kube),
         connect_target(in.on_concurrent_steal, in.session_target, in.locks, in.connect))

Policies == {"Abort", "Continue", "Override"}
Lookups == {"Found", "NotFound", "Err"}
PortLocks == {"Err", "NoList", "Empty", "Locked"}
ProtocolVersions == {None} \cup {Some(v) : v \in OperatorVersions}

CreateInputs ==
    [connect : {"Ok", "HttpError", "Err"}, protocol_version : ProtocolVersions,
     on_concurrent_steal : Policies, target : Lookups, operator : Lookups,
     locks : PortLocks, kube : {"Ok", "Err"}, copy_target : BOOLEAN,
     copy_target_enabled : BOOLEAN, fingerprint : BOOLEAN, version_parses : BOOLEAN,
     copy : {"Ok", "InvalidTarget", "Err"}]

ConnectInputs ==
    [connect : {"Ok", "HttpError", "Err"}, protocol_version : ProtocolVersions,
     on_concurrent_steal : Policies, locks : PortLocks, kube : {"Ok", "Err"},
     session_target : {"Raw", "Copied"}]

(* The end of a call, made once in the life of the process (by the CLI or  *)
(* by the internal proxy): ConnectionWrapper::wrap spawns the wrapper with *)
(* new channels when the connection was opened                             *)
SessionDone(op, in, target, r) ==
    /\ session = NoSession
    /\ session' = [op |-> op, result |-> r.result,
                   on_concurrent_steal |-> in.on_concurrent_steal, target |-> target,
                   operator |-> IF op = "create_session" THEN in.operator ELSE "none",
                   locks |-> in.locks, calls |-> r.calls]
    /\ wrapper' = IF r.result = "Connection" THEN Spawned(in.protocol_version) ELSE wrapper
    /\ client_rx' = IF r.result = "Connection" THEN Channel ELSE client_rx
    /\ daemon_tx' = IF r.result = "Connection" THEN Channel ELSE daemon_tx
    /\ connection' = IF r.result = "Connection" THEN Connection ELSE connection
    /\ UNCHANGED <<fileVars, pathVars, addrVars,
                   relayVars, sockVars, installVars, lockVars, policyVars>>

CreateSession ==
    \E in \in CreateInputs :
        SessionDone("create_session", in, IF in.copy_target THEN "Copied" ELSE "Raw",
                    create_session(in))

ConnectSession ==
    \E in \in ConnectInputs : SessionDone("connect", in, in.session_target, connect(in))

SessionNext == CreateSession \/ ConnectSession

----------------------------------------------------------------------------
(* The specifications *)

Next == Open \/ OpenAt \/ Dup \/ Dup2 \/ Dup3 \/ Close

Init == FileInit /\ PathIdle /\ AddrInit /\ RelayInit /\ InstallIdle /\ LockIdle /\ PolicyIdle /\ OperatorIdle

Spec == Init /\ [][Next]_vars

(* Reads of managed and unmanaged descriptors *)
ReadNext == Open \/ Dup \/ Close \/ Read

ReadSpec == Init /\ [][ReadNext]_vars

(* The operations on open descriptors *)
FdSpec == Init /\ [][FdNext]_vars

(* Directory streams and the descriptors they came from *)
DirSpec == Init /\ [][DirNext]_vars

(* Address lists obtained and freed in any order *)
AddrSpec == Init /\ [][AddrNext]_vars

(* The relay task, the agent and the blocked threads; the runtime keeps    *)
(* polling the task and a blocked thread is woken when its channel is      *)
(* ready                                                                   *)
RelaySpec ==
    /\ Init
    /\ [][RelayNext]_vars
    /\ WF_vars(RelayDaemonMessage)
    /\ WF_vars(RelayDeliver)
    /\ \A t \in Callers : WF_vars(Send(t)) /\ WF_vars(Receive(t))

(* The relay with both branches of its select! taken when they stay ready: *)
(* the runtime polls the task, select! picks among the ready branches at   *)
(* random, and a thread blocked on a channel is woken when it is ready     *)
RelayFairSpec ==
    /\ Init
    /\ [][RelayNext]_vars
    /\ WF_vars(RelayClientMessage)
    /\ WF_vars(RelayDaemonMessage)
    /\ WF_vars(RelayDeliver)
    /\ \A t \in Callers : WF_vars(Send(t)) /\ WF_vars(Receive(t))

(* The hooks that call the original function first, over descriptors with *)
(* and without socket metadata                                             *)
NativeFirstNext ==
    Socket \/ Accept \/ Accept4 \/ Fcntl \/ Dup \/ Dup2 \/ Dup3 \/ Close

NativeFirstSpec == Init /\ [][NativeFirstNext]_vars

(* The hooks that virtualize first, called in any order *)
SockNext ==
    \/ Socket \/ Bind \/ Listen \/ Connect \/ ConnectNoCancel
    \/ GetPeerName \/ GetSockName \/ GetHostName \/ GetHostByName
    \/ GetAddrInfo \/ GetAddrInfoBypass

SockSpec == Init /\ [][SockNext]_vars

(* The path operations, over the answers of the file filter *)
PolicySpec == Init /\ [][PolicyNext]_vars

(* make_proxy_request_no_response returns an error once the relay task has *)
(* ended and dropped its end of the channel                                *)
ChannelGone == relay = Stopped

(* A panic, among the native calls of a hook call: the call does not       *)
(* return and the thread goes no further                                   *)
Panic == Native("panic", 0 - 1)

Aborted == lastOp.native # <<>> /\ lastOp.native[Len(lastOp.native)] = Panic

(* The close hook when the channel is gone: the entry is taken out of the  *)
(* table and, when it was the last alias, the drop of the RemoteFile runs  *)
(* remote_close(self.fd).expect(..), which panics on the error before the  *)
(* native close; no request is sent for the value                          *)
close_detour_disconnected(fd, close_result) ==
    LET without == [OPEN_FILES EXCEPT ![fd] = NoArc]
    IN  IF OPEN_FILES[fd] # NoArc /\ ArcDropped(OPEN_FILES, without, OPEN_FILES[fd])
        THEN Outcome(0 - 1, <<>>, <<Panic>>, without,
                     [arcFd EXCEPT ![OPEN_FILES[fd]] = 0], osOpen)
        ELSE close_detour(fd, close_result)

(* The file layer while the relay runs, and close after it has ended *)
OpenUp == ~ChannelGone /\ Open

DupAlive == ~Aborted /\ Dup

CloseDisconnected ==
    /\ ChannelGone
    /\ ~Aborted
    /\ \E fd \in Fd :
          LET close_result == IF fd \in osOpen THEN 0 ELSE 0 - 1
          IN Finish("close", <<fd>>, close_detour_disconnected(fd, close_result), 0,
                    [openedAs EXCEPT ![fd] = 0])

DisconnectedNext == OpenUp \/ DupAlive \/ PeerCloses \/ RelayDaemonMessage \/ CloseDisconnected

DisconnectedSpec == Init /\ [][DisconnectedNext]_vars

(* The file layer once the lock of the socket table is poisoned *)
PoisonedNext == Open \/ Close \/ DupPoisoned \/ Dup2Poisoned \/ Dup3Poisoned

PoisonedSpec == Init /\ [][PoisonedNext]_vars

(* The connection wrapper, the client and the operator *)
WrapperStart ==
    /\ FileInit /\ PathIdle /\ AddrInit /\ RelayInit /\ InstallIdle /\ LockIdle /\ PolicyIdle
    /\ WrapperInit

WrapperSpec == WrapperStart /\ [][WrapperNext]_vars

(* Sessions created and connected, over the answers of the cluster *)
SessionSpec == Init /\ [][SessionNext]_vars

(* Threads that lock the table, with and without tracing *)
LockStart == FileInit /\ PathIdle /\ AddrInit /\ RelayInit /\ InstallIdle /\ LockInit /\ PolicyIdle /\ OperatorIdle

LockSpec == LockStart /\ [][LockNext]_vars

(* enable_socket_hooks, statement by statement *)
InstallStart == FileInit /\ PathIdle /\ AddrInit /\ RelayInit /\ InstallInit /\ LockIdle /\ PolicyIdle /\ OperatorIdle

InstallSpec == InstallStart /\ [][InstallNext]_vars

(* absolute_path applied once and twice to any bounded path *)
PathStart == FileInit /\ PathInit /\ AddrInit /\ RelayInit /\ InstallIdle /\ LockIdle /\ PolicyIdle /\ OperatorIdle

PathSpec == PathStart /\ [][PathNext]_vars

----------------------------------------------------------------------------
(* Properties of the file layer *)

(* Local descriptor fd resolves to remote fd r *)
ResolvesIn(files, arcs, fd, r) ==
    RemoteFdIn(files, arcs, fd).kind = "Success" /\ RemoteFdIn(files, arcs, fd).val = r

Resolves(fd, r) ==
    get_remote_fd(fd).kind = "Success" /\ get_remote_fd(fd).val = r

(* The local aliases of remote fd r *)
Aliases(r) == {fd \in Fd : Resolves(fd, r)}

DupOps == {"dup", "dup2", "dup3"}

(* C1: every local descriptor that a successful open or openat returned   *)
(* and that has not been closed since (by close, or by being the target of *)
(* a dup2/dup3, which closes it natively) resolves to exactly the remote   *)
(* fd of the OpenFileResponse of the open that produced it.                *)
C1_OpenedFdResolvesToItsRemoteFd ==
    \A fd \in Fd : openedAs[fd] # 0 => Resolves(fd, openedAs[fd])

(* A descriptor returned by an open is still there after another           *)
(* descriptor was closed.                                                  *)
C1_Witness ==
    /\ lastOp.op = "close"
    /\ lastOp.ret = 0
    /\ \E fd \in Fd : openedAs[fd] # 0 /\ fd # lastOp.args[1]

(* C2: for every remote fd the peer returned, no close request is sent     *)
(* while a local alias is left, exactly one has been sent once none is     *)
(* left (so it is sent by the step that removes the last alias), and never *)
(* a second one.                                                           *)
C2_OneCloseWhenLastAliasGoes ==
    \A r \in RemoteFd :
        /\ closeReqs[r] <= 1
        /\ (r \in returned => (closeReqs[r] = 1 <=> Aliases(r) = {}))
        /\ (r \notin returned => closeReqs[r] = 0 /\ Aliases(r) = {})

(* The close of the last alias, a duplicate, sent the one close request *)
C2_Witness ==
    /\ lastOp.op = "close"
    /\ \E r \in returned :
        /\ lastOp.sent = <<CloseFileRequest(r)>>
        /\ closeReqs[r] = 1
        /\ \A fd \in Fd : openedAs[fd] # r

(* C3: a successful dup, dup2 or dup3 of a managed source leaves the       *)
(* source and the new descriptor resolving to the source's remote fd; and  *)
(* when two descriptors resolve to the same remote fd, closing one leaves  *)
(* the other resolving to it and sends no close request.                   *)
C3_DupAliasesSurviveClose ==
    [][\A a \in Fd, r \in RemoteFd :
          /\ (/\ lastOp'.op \in DupOps
              /\ lastOp'.args[1] = a
              /\ lastOp'.ret # 0 - 1
              /\ Resolves(a, r)
              => /\ lastOp'.ret \in Fd
                 /\ Resolves(a, r)'
                 /\ ResolvesIn(OPEN_FILES', arcFd', lastOp'.ret, r))
          /\ \A b \in Fd \ {a} :
              (/\ lastOp'.op = "close"
               /\ lastOp'.args[1] = a
               /\ Resolves(a, r)
               /\ Resolves(b, r)
               => /\ Resolves(b, r)'
                  /\ lastOp'.sent = <<>>)]_<<lastOp.op, vars>>

(* One alias was closed, no close request was sent, and the alias that is  *)
(* left is a duplicate whose remote fd the peer still has open             *)
C3_Witness ==
    /\ lastOp.op = "close"
    /\ lastOp.ret = 0
    /\ lastOp.sent = <<>>
    /\ \E b \in Fd, r \in RemoteFd :
        /\ b # lastOp.args[1]
        /\ Resolves(b, r)
        /\ openedAs[b] = 0
        /\ closeReqs[r] = 0

(* C4: when the remote open succeeded and FN_OPEN could not create the     *)
(* placeholder, open (and openat) sent exactly one CloseFileRequest for    *)
(* the remote fd just opened, returned an error, and no local descriptor   *)
(* resolves to that remote fd.                                             *)
C4_PlaceholderFailureRollsBack ==
    (/\ lastOp.op \in {"open", "openat"}
     /\ lastOp.opened # 0
     /\ lastOp.native = <<Native("FN_OPEN", 0 - 1)>>)
    => /\ ClosesFor(lastOp.sent, lastOp.opened) = 1
       /\ lastOp.ret.kind = "Error"
       /\ Aliases(lastOp.opened) = {}

C4_Witness ==
    /\ lastOp.op = "open"
    /\ lastOp.opened # 0
    /\ lastOp.native = <<Native("FN_OPEN", 0 - 1)>>
    /\ lastOp.sent = <<OpenFileRequest, CloseFileRequest(lastOp.opened)>>

(* C8: a read of n bytes on a managed descriptor sends one ReadFileRequest *)
(* with buffer_size n when n <= 1048576 and 1048576 when n is greater.     *)
C8_ReadIsClamped ==
    \A r \in RemoteFd :
        (lastOp.op = "read" /\ Resolves(lastOp.args[1], r))
        => /\ Len(lastOp.sent) = 1
           /\ lastOp.sent[1].type = "ReadFileRequest"
           /\ lastOp.sent[1].fd = r
           /\ lastOp.sent[1].arg =
                 (IF lastOp.args[2] > 1048576 THEN 1048576 ELSE lastOp.args[2])

(* A read of more than 1 MiB on a managed descriptor asked for 1 MiB *)
C8_Witness ==
    /\ lastOp.op = "read"
    /\ lastOp.args[2] > 1048576
    /\ lastOp.sent # <<>>
    /\ lastOp.sent[1].arg = 1048576

----------------------------------------------------------------------------
(* Properties of absolute_path *)

(* The input without its last segment *)
Front(p) == SubSeq(p, 1, Len(p) - 1)

(* C9: absolute_path handles the components in order from the root: a     *)
(* name is appended, ".." removes the last appended name (and leaves the   *)
(* root alone when there is none), "." and the root change nothing; so     *)
(* /a/b/../c gives /a/c, /a/b/./c gives /a/b/c, /a/b/c gives /a/b/c, and   *)
(* the result is absolute with no "." or ".." component.                   *)
C9_AbsolutePathByComponents ==
    pathPc # "input" =>
        /\ (pathIn = <<"", "a", "b", "..", "c">> => norm = <<"", "a", "c">>)
        /\ (pathIn = <<"", "a", "b", ".", "c">> => norm = <<"", "a", "b", "c">>)
        /\ (pathIn = <<"", "a", "b", "c">> => norm = <<"", "a", "b", "c">>)
        /\ HasRoot(norm)
        /\ \A i \in 1..Len(norm) : norm[i] \notin {".", ".."}
        /\ (norm # RootPath => \A i \in 2..Len(norm) : norm[i] # "")
        /\ (Len(pathIn) = 1 =>
               norm = (IF pathIn[1] \in {"", ".", ".."} THEN RootPath ELSE <<"", pathIn[1]>>))
        /\ (Len(pathIn) >= 2 =>
               LET last == pathIn[Len(pathIn)]
                   before == absolute_path(Front(pathIn))
               IN norm = (IF last \in {"", "."} THEN before
                          ELSE IF last = ".." THEN
                              (IF before = RootPath THEN RootPath
                               ELSE IF Len(before) = 2 THEN RootPath
                               ELSE Front(before))
                          ELSE IF before = RootPath THEN <<"", last>>
                          ELSE before \o <<last>>))

C9_Witness ==
    /\ pathPc = "once"
    /\ pathIn = <<"", "a", "b", "..", "c">>
    /\ norm = <<"", "a", "c">>

(* C10: absolute_path(absolute_path(p)) = absolute_path(p) for every path p *)
C10_AbsolutePathIdempotent ==
    pathPc = "twice" => norm2 = norm

C10_Witness ==
    /\ pathPc = "twice"
    /\ pathIn = <<".", "a", "..", "b", "">>
    /\ norm2 = <<"", "b">>

----------------------------------------------------------------------------
(* Properties of the address lists *)

(* C6: freeaddrinfo on a registered head walks the whole chain, releases   *)
(* every node with its address structure and canonical name, leaves no     *)
(* address of the chain in the registry and never calls the native         *)
(* release; on a pointer that is not registered it calls the native        *)
(* release exactly once and releases nothing itself.                       *)
C6_FreeAddrInfoOwnOrNative ==
    lastFree.addrinfo # NULL =>
        IF lastFree.managed
        THEN /\ lastFree.native = <<>>
             /\ lastFree.dropped = lastFree.chain \X Parts
             /\ lastFree.chain \cap MANAGED_ADDRINFO = {}
        ELSE /\ lastFree.native = <<lastFree.addrinfo>>
             /\ lastFree.dropped = {}

C6_Witness ==
    /\ lastFree.managed
    /\ Cardinality(lastFree.chain) = MaxChain
    /\ \E a \in Addr : heap[a] = "libc" /\ a \notin lastFree.chain

(* C7: over any sequence of getaddrinfo and freeaddrinfo calls, with       *)
(* freeaddrinfo given any node the caller holds, no node allocated by the  *)
(* layer is handed to the native release and no native node is released    *)
(* by the layer's walker.                                                  *)
C7_AllocatorsNeverCross ==
    /\ ~lastFree.nativeGotLayerNode
    /\ ~lastFree.walkerGotLibcNode

----------------------------------------------------------------------------
(* Properties of the relay *)

----------------------------------------------------------------------------
(* Properties of the socket hooks *)

ProactiveHooks ==
    {"socket", "bind", "listen", "connect", "getpeername", "getsockname",
     "gethostname", "gethostbyname", "getaddrinfo"}

(* C11: when the virtualized operation of socket, bind, listen, connect,   *)
(* getpeername, getsockname, gethostname, gethostbyname or getaddrinfo     *)
(* yields a bypass, the hook calls the original function exactly once,     *)
(* with the caller's arguments, and returns what that call returned.       *)
C11_BypassIsTheNativeCall ==
    (lastHook.hook \in ProactiveHooks /\ lastHook.detour = "Bypass") =>
        lastHook.native =
            <<NativeCall(OriginalOf[lastHook.hook], lastHook.args, lastHook.ret)>>

C11_Witness ==
    /\ lastHook.hook = "getsockname"
    /\ lastHook.detour = "Bypass"
    /\ lastHook.args[1] \in SOCKETS
    /\ lastHook.ret = 0 - 1

(* The original function of each hook that calls it first *)
NativeFirst ==
    [dup |-> "FN_DUP", accept |-> "FN_ACCEPT", accept4 |-> "FN_ACCEPT4",
     dup2 |-> "FN_DUP2", dup3 |-> "FN_DUP3", fcntl |-> "FN_FCNTL"]

(* The call is one of accept, accept4, dup, dup2 on distinct descriptors,  *)
(* dup3, fcntl                                                             *)
IsNativeFirst(call) ==
    /\ call.op \in DOMAIN NativeFirst
    /\ call.op = "dup2" => call.args[1] # call.args[2]

(* C12: accept, accept4, dup, dup2 on distinct descriptors, dup3 and fcntl *)
(* make the original call, once, and use its result for everything else:   *)
(* when it returned -1 the hook returns -1, sends nothing and changes no    *)
(* table; otherwise only the descriptor it returned may get or lose an      *)
(* entry.                                                                  *)
C12_NativeCallFirst ==
    [][IsNativeFirst(lastOp') =>
          /\ Len(lastOp'.native) = 1
          /\ lastOp'.native[1].fn = NativeFirst[lastOp'.op]
          /\ lastOp'.native[1].ret = 0 - 1 =>
                /\ lastOp'.ret = 0 - 1
                /\ lastOp'.sent = <<>>
                /\ SOCKETS' = SOCKETS
                /\ \A fd \in Fd : RemoteFdIn(OPEN_FILES', arcFd', fd)
                                    = RemoteFdIn(OPEN_FILES, arcFd, fd)
          /\ \A fd \in Fd \ {lastOp'.native[1].ret} :
                /\ (fd \in SOCKETS') = (fd \in SOCKETS)
                /\ RemoteFdIn(OPEN_FILES', arcFd', fd) = RemoteFdIn(OPEN_FILES, arcFd, fd)
      ]_<<lastOp.op, vars>>

C12_Witness ==
    /\ lastOp.op = "accept"
    /\ lastOp.args[1] \in SOCKETS
    /\ lastOp.ret # 0 - 1
    /\ lastOp.ret \in SOCKETS
    /\ lastOp.ret # lastOp.args[1]

(* C13: dup2 with oldfd equal to newfd returns newfd, makes no native     *)
(* call, sends no request and leaves the local-to-remote table unchanged.  *)
C13_Dup2SameFdIsNoOp ==
    [][(lastOp'.op = "dup2" /\ lastOp'.args[1] = lastOp'.args[2]) =>
          /\ lastOp'.ret = lastOp'.args[2]
          /\ lastOp'.native = <<>>
          /\ lastOp'.sent = <<>>
          /\ OPEN_FILES' = OPEN_FILES
          /\ arcFd' = arcFd
      ]_<<lastOp.op, vars>>

C13_Witness ==
    /\ lastOp.op = "dup2"
    /\ lastOp.args[1] = lastOp.args[2]
    /\ OPEN_FILES[lastOp.args[1]] # NoArc
    /\ lastOp.ret = lastOp.args[1]

----------------------------------------------------------------------------
(* Properties of the installation *)

(* The symbols of name resolution on a platform *)
DnsSymbols(os) ==
    {"gethostbyname", "getaddrinfo", "freeaddrinfo"}
    \cup (IF os = "macos" THEN {"dns_configuration_copy", "dns_configuration_free"} ELSE {})

(* The other symbols the socket hooks replace on a platform *)
OtherSocketSymbols(os) ==
    {"socket", "recvfrom", "sendto", "recvmsg", "sendmsg", "bind", "listen",
     "connect", "_connect$NOCANCEL", "fcntl", "dup", "dup2", "getpeername",
     "getsockname", "gethostname", "accept", "_accept$NOCANCEL"}
    \cup (IF os = "linux" THEN {"uv__accept4", "accept4", "dup3"} ELSE {})

(* C14: after enable_socket_hooks the symbols of name resolution are       *)
(* replaced if and only if remote DNS is enabled, every other socket hook  *)
(* is installed either way, and no symbol is ever replaced twice.          *)
C14_DnsHooksOnlyWithRemoteDns ==
    /\ \A sym \in Symbols : replaced[sym] <= 1
    /\ installPc = Len(InstallPlan) =>
          /\ \A sym \in DnsSymbols(target_os) : (replaced[sym] = 1) <=> enabled_remote_dns
          /\ \A sym \in OtherSocketSymbols(target_os) : replaced[sym] = 1
          /\ \A sym \in Symbols \ (DnsSymbols(target_os) \cup OtherSocketSymbols(target_os)) :
                replaced[sym] = 0

C14_Witness ==
    /\ installPc = Len(InstallPlan)
    /\ ~enabled_remote_dns
    /\ replaced["getaddrinfo"] = 0
    /\ replaced["gethostname"] = 1

----------------------------------------------------------------------------
(* Properties of the relay's forwarding *)

(* The messages of a sequence that are not log messages, in order *)
Forwardable(msgs) == SelectSeq(msgs, NotLog)

(* s is an initial part of t *)
IsPrefix(s, t) == Len(s) <= Len(t) /\ s = SubSeq(t, 1, Len(s))

C16_OrderPreserved ==
    /\ IsPrefix(written, accepted)
    /\ IsPrefix(delivered, Forwardable(decoded))
    /\ \A i, j \in DOMAIN written : written[i] = written[j] => i = j
    /\ \E k \in 0..Len(delivered) : out_q = SubSeq(delivered, k + 1, Len(delivered))

C16_Witness ==
    /\ Len(written) >= 2
    /\ Len(delivered) >= 2
    /\ written[1] # 1

----------------------------------------------------------------------------
(* Properties of the table lock *)

(* C18: no thread reaches OPEN_FILES.lock() while it holds the mutex: with *)
(* the lock held it neither logs nor enters a hooked operation.            *)
C18_NoLockWhileHeld ==
    \A t \in Threads : ~(holder = t /\ thread[t].pc = "relock")

----------------------------------------------------------------------------
(* Properties of the table's entries *)

(* C19: every local descriptor in OPEN_FILES holds an Arc of a RemoteFile  *)
(* whose fd the peer returned from an open and for which no                *)
(* CloseFileRequest has been sent since.                                   *)
C19_TableEntriesAreLive ==
    \A fd \in Fd :
        OPEN_FILES[fd] # NoArc =>
            /\ arcFd[OPEN_FILES[fd]] \in returned
            /\ closeReqs[arcFd[OPEN_FILES[fd]]] = 0

(* An entry is in the table after the close of another file sent its close *)
(* request                                                                 *)
C19_Witness ==
    /\ lastOp.op = "close"
    /\ lastOp.sent # <<>>
    /\ \E fd \in Fd : OPEN_FILES[fd] # NoArc

----------------------------------------------------------------------------
(* Properties of the path operations *)

(* C20: no path operation (open, openat, access, readlink, stat, lstat,    *)
(* fstatat, statx, realpath) calls the file filter more than once.         *)
C20_FilterAskedAtMostOnce ==
    Len(lastPath.asked) <= 1

----------------------------------------------------------------------------
(* The operations on an open descriptor *)

FdOps == {"read", "pread", "write", "pwrite", "lseek", "fsync", "fstat",
          "xstatfs", "getdents64", "fdopendir"}

(* The table's answer for the descriptor of the last call; no operation on *)
(* an open descriptor changes the table                                    *)
LastRemoteFd == get_remote_fd(lastOp.args[1])

(* The managed calls that return before any request is built *)
SendsNothing ==
    \/ lastOp.op = "fsync"
    \/ lastOp.op = "lseek" /\ lastOp.args[3] \notin {SEEK_SET, SEEK_CUR, SEEK_END}
    \/ lastOp.op = "write" /\ ~lastOp.args[2].some

(* C21, as stated: an operation on an open descriptor never asks the file  *)
(* filter; with the descriptor in the table it sends its request with the  *)
(* remote fd found there, and with the descriptor not in the table it      *)
(* bypasses without any request.                                           *)
C21_FdOpsAlwaysSend ==
    lastOp.op \in FdOps =>
        /\ lastOp.asked = <<>>
        /\ IF LastRemoteFd.kind = "Success"
           THEN lastOp.sent # <<>> /\ lastOp.sent[1].fd = LastRemoteFd.val
           ELSE lastOp.ret.kind = "Bypass" /\ lastOp.sent = <<>>

(* C21, amended: an operation on an open descriptor never asks the file    *)
(* filter; with the descriptor not in the table it bypasses without any    *)
(* request; with the descriptor in the table the request it sends carries  *)
(* the remote fd found there, and it sends none only in fsync, in lseek    *)
(* with an unknown whence and in write with a null buffer.                 *)
C21_FdOpsUseTableOnly ==
    lastOp.op \in FdOps =>
        /\ lastOp.asked = <<>>
        /\ IF LastRemoteFd.kind = "Success"
           THEN /\ lastOp.sent # <<>> => lastOp.sent[1].fd = LastRemoteFd.val
                /\ lastOp.sent = <<>> <=> SendsNothing
           ELSE lastOp.ret.kind = "Bypass" /\ lastOp.sent = <<>>

(* C21 witness: getdents64 on a managed descriptor sent its request *)
C21_Witness ==
    /\ lastOp.op = "getdents64"
    /\ LastRemoteFd.kind = "Success"
    /\ lastOp.sent # <<>>
    /\ lastOp.sent[1].fd # lastOp.args[1]

----------------------------------------------------------------------------
(* The detour guard in fcntl *)

(* C22: when fcntl_detour cannot acquire the detour guard it returns what  *)
(* the original fcntl returned, having made that one native call, sent no  *)
(* request and left the file table and the socket table as they were.      *)
C22_FcntlWithoutGuardIsNative ==
    [][(lastOp'.op = "fcntl" /\ ~lastOp'.args[3]) =>
          /\ lastOp'.native = <<Native("FN_FCNTL", lastOp'.ret)>>
          /\ lastOp'.sent = <<>>
          /\ lastOp'.asked = <<>>
          /\ SOCKETS' = SOCKETS
          /\ OPEN_FILES' = OPEN_FILES
          /\ arcFd' = arcFd
      ]_<<lastOp.op, vars>>

(* C22 witness: a duplicating fcntl on a descriptor with socket metadata   *)
(* succeeded without the guard, and the new descriptor has no metadata     *)
C22_Witness ==
    /\ lastOp.op = "fcntl"
    /\ ~lastOp.args[3]
    /\ Duplicates(lastOp.args[2])
    /\ lastOp.args[1] \in SOCKETS
    /\ lastOp.ret # 0 - 1
    /\ lastOp.ret \notin SOCKETS

----------------------------------------------------------------------------
(* statx *)

StatxBits == {STATX_TYPE, STATX_MODE, STATX_NLINK, STATX_UID, STATX_GID, STATX_ATIME,
              STATX_MTIME, STATX_CTIME, STATX_INO, STATX_SIZE, STATX_BLOCKS}

StatxSucceeded == lastPath.op = "statx" /\ lastPath.ret = "Success"

(* C23: after a successful statx through the layer, stx_mask has the bit   *)
(* of type, mode, link count, uid, gid, access time, modification time,    *)
(* change time, inode, size and block count set, and stx_attributes_mask   *)
(* is 0.                                                                   *)
C23_StatxMaskNamesTheFields ==
    StatxSucceeded =>
        /\ \A bit \in StatxBits : BitAnd(lastPath.buf.stx_mask, bit) = bit
        /\ lastPath.buf.stx_attributes_mask = 0

(* A timestamp converted as the claim says *)
Converted(n, ts) ==
    IF n >= 0
    THEN /\ ts.tv_nsec >= 0
         /\ ts.tv_nsec < NANOS_PER_SEC
         /\ ts.tv_sec >= 0
         /\ ts.tv_sec <= n \div NANOS_PER_SEC
         /\ ts.tv_sec * NANOS_PER_SEC + ts.tv_nsec = n
    ELSE ts.tv_sec = 0 /\ ts.tv_nsec = 0

(* C24: each timestamp statx writes is the conversion of the nanosecond    *)
(* value of the response: for n >= 0, tv_nsec < 10^9 and                   *)
(* tv_sec * 10^9 + tv_nsec = n; for n < 0, tv_sec = 0 and tv_nsec = 0.     *)
C24_TimestampConversion ==
    StatxSucceeded =>
        /\ Converted(lastPath.response.access_time, lastPath.buf.stx_atime)
        /\ Converted(lastPath.response.creation_time, lastPath.buf.stx_ctime)
        /\ Converted(lastPath.response.modification_time, lastPath.buf.stx_mtime)

(* C24 witness: a negative value, a value below one second and a value     *)
(* above one second were converted in one call                             *)
C24_Witness ==
    /\ StatxSucceeded
    /\ lastPath.response.access_time < 0
    /\ lastPath.buf.stx_atime.tv_sec = 0
    /\ lastPath.response.creation_time = NANOS_PER_SEC - 1
    /\ lastPath.buf.stx_ctime.tv_nsec = NANOS_PER_SEC - 1
    /\ lastPath.response.modification_time > NANOS_PER_SEC
    /\ lastPath.buf.stx_mtime.tv_sec > 0

----------------------------------------------------------------------------
(* The order of open *)

(* Some descriptor resolves differently after the step *)
TableChanged ==
    \E fd \in Fd : RemoteFdIn(OPEN_FILES', arcFd', fd) # RemoteFdIn(OPEN_FILES, arcFd, fd)

----------------------------------------------------------------------------
(* The size of a read request *)

(* C26: no read request the layer sends for a managed descriptor, from     *)
(* read or from pread, asks for more than 1,048,576 bytes.                 *)
C26_ReadRequestsWithinLimit ==
    \A i \in 1..Len(lastOp.sent) :
        lastOp.sent[i].type \in {"ReadFileRequest", "ReadLimitedFileRequest"} =>
            lastOp.sent[i].arg <= 1048576

----------------------------------------------------------------------------
(* The remapper and the path of the request *)

(* C27: a path operation hands the caller's path to the remapper at most   *)
(* once, and the open request of an openat on an absolute path or on       *)
(* AT_FDCWD carries the caller's path remapped once.                       *)
C27_RemappedAtMostOnce ==
    /\ lastPath.remaps <= 1
    /\ (lastPath.op = "openat" /\ lastPath.sent # <<>> /\ ~lastPath.sent[1].fd.some) =>
          lastPath.sent[1].path = Some(change_path(lastPath.args[2].val))

(* The requests of the last operation that name the file by path alone *)
PathOnly == {i \in 1..Len(lastPath.sent) : ~lastPath.sent[i].fd.some}

(* C28: the path in the request of a redirected path operation is a path   *)
(* the file filter was asked about in that operation.                      *)
C28_RequestPathWasDecided ==
    \A i \in PathOnly :
        \E k \in 1..Len(lastPath.asked) :
            lastPath.sent[i].path = Some(lastPath.asked[k].path)

----------------------------------------------------------------------------
(* openat relative to a descriptor *)

(* C29: openat with a relative path and a descriptor other than AT_FDCWD   *)
(* asks no filter; with the descriptor in the table it sends an            *)
(* OpenRelativeFileRequest with the descriptor's remote fd and, when it    *)
(* succeeds, the descriptor it returns is the placeholder and resolves to  *)
(* the remote fd the peer returned; with the descriptor not in the table   *)
(* it bypasses, sends nothing, creates nothing and leaves the table alone. *)
C29_OpenAtRelative ==
    [][(/\ lastOp'.op = "openat"
        /\ lastOp'.args[2] = Success("relative")
        /\ lastOp'.args[1] # AT_FDCWD) =>
          LET base == RemoteFdIn(OPEN_FILES, arcFd, lastOp'.args[1]) IN
          /\ lastOp'.asked = <<>>
          /\ IF base.kind = "Success"
             THEN /\ lastOp'.sent # <<>>
                  /\ lastOp'.sent[1] = OpenRelativeFileRequest(base.val)
                  /\ lastOp'.ret.kind = "Success" =>
                        /\ lastOp'.ret.val = lastOp'.native[1].ret
                        /\ lastOp'.opened # 0
                        /\ RemoteFdIn(OPEN_FILES', arcFd', lastOp'.ret.val)
                              = Success(lastOp'.opened)
                        /\ RemoteFdIn(OPEN_FILES', arcFd', lastOp'.args[1]) = base
             ELSE /\ lastOp'.ret.kind = "Bypass"
                  /\ lastOp'.sent = <<>>
                  /\ lastOp'.native = <<>>
                  /\ ~TableChanged
      ]_<<lastOp.op, vars>>

(* C29 witness: a file was opened relative to a managed descriptor and the *)
(* two descriptors resolve to different remote fds                         *)
C29_Witness ==
    /\ lastOp.op = "openat"
    /\ lastOp.args[2] = Success("relative")
    /\ lastOp.args[1] # AT_FDCWD
    /\ lastOp.ret.kind = "Success"
    /\ Resolves(lastOp.ret.val, lastOp.opened)
    /\ get_remote_fd(lastOp.args[1]).kind = "Success"
    /\ ~Resolves(lastOp.args[1], lastOp.opened)

----------------------------------------------------------------------------
(* The directory streams *)

(* C30: a successful fdopendir(fd) on a managed descriptor leaves in       *)
(* OPEN_DIRS, under the handle it returns, the remote directory fd of the  *)
(* peer's answer together with fd, and leaves fd in OPEN_FILES with the    *)
(* remote fd it had; no later call, a close of fd included, removes or     *)
(* changes a directory stream other than a fdopendir returning its handle. *)
C30_DirStreamsOutliveTheirFile ==
    [][/\ (lastOp'.op = "fdopendir" /\ lastOp'.ret.kind = "Success") =>
             /\ get_remote_fd(lastOp'.args[1]).kind = "Success"
             /\ lastOp'.opened # 0
             /\ OPEN_DIRS'[lastOp'.ret.val]
                   = DirStream(lastOp'.opened, lastOp'.args[1])
             /\ RemoteFdIn(OPEN_FILES', arcFd', lastOp'.args[1])
                   = get_remote_fd(lastOp'.args[1])
       /\ \A dir \in Fd :
             (/\ OPEN_DIRS[dir].present
              /\ ~(lastOp'.op = "fdopendir" /\ lastOp'.ret = Success(dir))) =>
                 OPEN_DIRS'[dir] = OPEN_DIRS[dir]
      ]_<<lastOp.op, vars>>

(* C30 witness: the descriptor a directory stream was made from has been   *)
(* closed and is no longer in OPEN_FILES, and the stream is still there    *)
C30_Witness ==
    /\ lastOp.op = "close"
    /\ lastOp.sent # <<>>
    /\ \E dir \in Fd :
          /\ OPEN_DIRS[dir].present
          /\ OPEN_DIRS[dir].fd = lastOp.args[1]
          /\ dir # lastOp.args[1]
          /\ get_remote_fd(lastOp.args[1]).kind = "Bypass"

----------------------------------------------------------------------------
(* The arguments of statx *)

(* The arguments of the last statx *)
StatxArgs ==
    [path |-> lastPath.args[3], flags |-> lastPath.args[4],
     dir_fd |-> lastPath.args[1], path_name |-> lastPath.args[2], mask |-> lastPath.args[5],
     statx_buf |-> lastPath.args[6]]

(* The checks of statx_logic, each reached when the ones before it passed *)
StatxRejection ==
    LET a == StatxArgs IN
    IF a.statx_buf = NULL \/ a.path_name = NULL THEN "BadPointer"
    ELSE IF STATX__RESERVED \in a.mask THEN "BadFlag"
    ELSE IF a.path = EmptyPath /\ AT_EMPTY_PATH \notin a.flags THEN "EmptyPath"
    ELSE IF a.path # EmptyPath /\ is_relative(a.path) /\ a.dir_fd = AT_FDCWD
    THEN "Bypass"
    ELSE "none"

----------------------------------------------------------------------------
(* The reply to readlink *)

(* C32: a readlink that sent its request is a bypass when the reply is the *)
(* NotImplemented error, an error when the reply is any other error, and a *)
(* success when the reply is the response.                                 *)
C32_ReadLinkNotImplementedBypasses ==
    (lastPath.op = "readlink" /\ lastPath.sent # <<>>) =>
        /\ lastPath.reply = "NotImplemented" => lastPath.ret = "Bypass"
        /\ lastPath.reply \in {"OtherError", "ProxyError"} => lastPath.ret = "Error"
        /\ lastPath.reply = "Ok" => lastPath.ret = "Success"

(* C32 witness: a readlink was sent and answered with NotImplemented *)
C32_Witness ==
    /\ lastPath.op = "readlink"
    /\ lastPath.sent # <<>>
    /\ lastPath.reply = "NotImplemented"
    /\ lastPath.ret = "Bypass"

----------------------------------------------------------------------------
(* realpath *)

(* C33: a realpath that returns a path has sent one metadata request, for  *)
(* the path it returns, and that request succeeded; a realpath of a        *)
(* relative path, or one the file filter stops, is a bypass that sent      *)
(* nothing; and a realpath whose metadata request failed returns the       *)
(* failure and no path.                                                    *)
C33_RealPathChecksWhatItReturns ==
    lastPath.op = "realpath" =>
        /\ lastPath.value.some =>
              /\ lastPath.ret = "Success"
              /\ Len(lastPath.sent) = 1
              /\ lastPath.sent[1].type = "XstatRequest"
              /\ lastPath.sent[1].path = lastPath.value
        /\ lastPath.ret = "Bypass" => lastPath.sent = <<>> /\ ~lastPath.value.some
        /\ lastPath.ret = "Error" => ~lastPath.value.some

----------------------------------------------------------------------------
(* Properties of the operator client *)

(* The last turn handled a SwitchProtocolVersion of the client *)
SwitchTurn == wrapper.last.msg.type = "SwitchProtocolVersion"

(* C34: a SwitchProtocolVersion is never forwarded above what the operator *)
(* supports: with a known operator version the frame forwarded carries the *)
(* smaller of the operator's and the requested version, and with an        *)
(* unknown one nothing is forwarded and the client is answered with        *)
(* SwitchProtocolVersionResponse 1.2.1.  (A forwarding turn records the    *)
(* message it forwarded, so the requested version is read off the channel  *)
(* history below.)                                                         *)
C34_SwitchVersionCapped ==
    /\ \A i \in 1..Len(connection.sent) :
          connection.sent[i].msg.type = "SwitchProtocolVersion" =>
              /\ wrapper.protocol_version.some
              /\ ~VersionLess(wrapper.protocol_version.val, connection.sent[i].msg.version)
              /\ connection.sent[i].msg.version \in
                     RequestedVersions \cup {wrapper.protocol_version.val}
    /\ (SwitchTurn /\ wrapper.last.event = "forwarded") =>
          /\ wrapper.protocol_version.some
          /\ wrapper.last.answered = <<>>
          /\ Len(wrapper.last.forwarded) = 1
          /\ LET sent == wrapper.last.forwarded[1].msg.version
                 requested == wrapper.requested
             IN  /\ ~VersionLess(wrapper.protocol_version.val, sent)
                 /\ ~VersionLess(requested, sent)
                 /\ sent \in {wrapper.protocol_version.val, requested}
    /\ (wrapper.requested # NoVersion /\ ~wrapper.protocol_version.some) =>
          /\ wrapper.last.forwarded = <<>>
          /\ wrapper.last.event = "answered" =>
                wrapper.last.answered = <<SwitchProtocolVersionResponse(<<1, 2, 1>>)>>
          /\ wrapper.last.event \in {"answered", "DaemonReceiverDropped"}

(* A version above the operator's was requested and the operator's was     *)
(* forwarded                                                               *)
C34_Witness ==
    /\ wrapper.last.event = "forwarded"
    /\ wrapper.requested = <<2, 0, 0>>
    /\ wrapper.last.forwarded = <<Binary(SwitchProtocolVersion(<<1, 10, 0>>))>>

(* The operator's version is unknown and the wrapper answered the client   *)
C34_WitnessUnknown ==
    /\ ~wrapper.protocol_version.some
    /\ wrapper.last.event = "answered"
    /\ connection.sent = <<>>

CloseFrames(sent) == Cardinality({i \in 1..Len(sent) : sent[i].kind = "Close"})

(* C35: the wrapper stops when the client drops its sender or the stream   *)
(* of the operator ends, and has then sent exactly one Close frame, the    *)
(* last frame it sends; it stops as well on an encode or decode failure, a *)
(* transport error, a frame that is not binary and a dropped receiver of   *)
(* the client; once stopped it forwards nothing in either direction        *)
C35_WrapperStops ==
    [][/\ wrapper'.last.event \in {"ClientDropped", "StreamEnded"} =>
             /\ wrapper'.pc = "stopped"
             /\ CloseFrames(connection'.sent) = 1
             /\ connection'.sent[Len(connection'.sent)] = CloseFrame
       /\ wrapper'.last.event \in Failures => wrapper'.pc = "stopped"
       /\ wrapper'.pc = "running" => CloseFrames(connection'.sent) = 0
       /\ wrapper.pc = "stopped" =>
             /\ wrapper' = wrapper
             /\ connection'.sent = connection.sent
             /\ daemon_tx'.queue = daemon_tx.queue]_vars

(* The client dropped its sender with a message still in the channel: the  *)
(* message was forwarded, then the Close frame was sent                    *)
C35_Witness ==
    /\ wrapper.pc = "stopped"
    /\ wrapper.last.event = "ClientDropped"
    /\ Len(connection.sent) = 2
    /\ client_rx.sent = 1

(* The wrapper stopped on a frame that is not binary while messages of the *)
(* client were waiting                                                     *)
C35_WitnessInvalid ==
    /\ wrapper.pc = "stopped"
    /\ wrapper.result = "InvalidMessage"
    /\ client_rx.queue # <<>>

(* C36: with the policy Abort and a raw target, connect_target opens the   *)
(* connection only when the lookup of the port locks did not return a list *)
(* with locks in it; when it did, the result is ConcurrentStealAbort and   *)
(* no connection request is made                                           *)
C36_AbortOnPortLocks ==
    (session.on_concurrent_steal = "Abort" /\ session.target = "Raw") =>
        /\ "connect" \in Range(session.calls) =>
               /\ "get port-locks" \in Range(session.calls)
               /\ session.locks # "Locked"
        /\ (session.locks = "Locked" /\ "get port-locks" \in Range(session.calls)) =>
               /\ session.result = "ConcurrentStealAbort"
               /\ "connect" \notin Range(session.calls)

(* connect_target found locks and aborted *)
C36_Witness ==
    /\ session.on_concurrent_steal = "Abort"
    /\ session.target = "Raw"
    /\ session.locks = "Locked"
    /\ session.result = "ConcurrentStealAbort"

(* connect_target found no locks and connected *)
C36_WitnessConnected ==
    /\ session.on_concurrent_steal = "Abort"
    /\ session.target = "Raw"
    /\ session.locks = "Empty"
    /\ session.result = "Connection"
    /\ wrapper.pc = "running"

(* C37: create_session returns None when the operator resource is not      *)
(* found, and has then fetched no target, created no copied target and     *)
(* opened no connection; any other failure of the fetch of the operator is *)
(* returned as an error                                                    *)
C37_NoOperatorNoSession ==
    (session.op = "create_session" /\ "get operator" \in Range(session.calls)) =>
        /\ session.operator = "NotFound" =>
               /\ session.result = "None"
               /\ session.calls = <<"create_kube_api", "get operator">>
        /\ session.operator = "Err" =>
               /\ session.result = "KubeApiError"
               /\ session.calls = <<"create_kube_api", "get operator">>
        /\ session.result = "None" => session.operator = "NotFound"

(* The operator was not found *)
C37_Witness ==
    /\ session.op = "create_session"
    /\ session.operator = "NotFound"
    /\ session.result = "None"


(* C38: when dup, dup2 or dup3 returns the failure sentinel, the call has   *)
(* left no native descriptor open that was not open before it              *)
C38_FailedDupLeavesNothingOpen ==
    [][(lastOp'.op \in DupOps /\ lastOp'.ret = 0 - 1) =>
          osOpen' \subseteq osOpen
      ]_<<lastOp.op, vars>>

(* C39: when the last alias of a managed entry is removed after the relay  *)
(* channel is gone, the entry leaves the table and the calling thread is   *)
(* not aborted                                                             *)
C39_LastCloseSurvivesDisconnect ==
    [][(/\ lastOp'.op = "close"
        /\ ChannelGone
        /\ OPEN_FILES[lastOp'.args[1]] # NoArc
        /\ ArcRefs(OPEN_FILES, OPEN_FILES[lastOp'.args[1]]) = {lastOp'.args[1]})
       => (OPEN_FILES'[lastOp'.args[1]] = NoArc /\ ~Aborted')]_<<lastOp.op, vars>>

====
